---- MODULE Spec2Model ----
(***************************************************************************)
(* A model of swh-loader-mercurial's HgLoaderFromDisk: a Mercurial         *)
(* repository (changelog, branches, bookmarks, tags, manifests), the       *)
(* archive storage the loader writes to, the loader instance, and one      *)
(* action per operation (a whole load() by the loader instance that loaded *)
(* before or by a new one, strip / restore of the repository, the partial  *)
(* copy of the storage and the patch of EXTID_VERSION that the test-suite  *)
(* performs).                                                              *)
(***************************************************************************)
EXTENDS Integers, Sequences, FiniteSets, TLC

\* ---------------------------------------------------------------- bounds
\* Number of changesets of the repository when it is complete.
MaxRevs == 3
\* Number of load() calls (origin visits) of one behaviour.
MaxLoads == 3
\* Number of times EXTID_VERSION is patched to a new value.
MaxPatches == 1
\* Number of changes of the environment (strip, restore, copy of the
\* storage, patch of the version) made around the loads of one behaviour.
MaxChanges == 1

\* ------------------------------------------------------ program constants
EXTID_VERSION == 1
EXTID_TYPE == "hg-nodeid"
\* mercurial.node.nullid; revision number 0 stands for "no changeset".
NULLID == 0

VARIABLES
    repo,      \* the complete Mercurial repository (fixed during a behaviour)
    nrevs,     \* how many of its changesets exist now (strip / restore)
    version,   \* the value of from_disk.EXTID_VERSION (the tests patch it)
    storage,   \* the archive: objects, ExtIDs, origin visits
    partial,   \* TRUE once the storage was replaced by a partial copy
    loader,    \* the fields of the HgLoaderFromDisk instance
    history,   \* what every load() did, and what happened between the loads
    bundle20,  \* the fields of an HgBundle20Loader during one visit
    converted, \* a blob, the size limit and what blob_to_content_dict returns
    files,     \* the paths on disk and the loader fields that name them
    cloning,   \* hgutil.clone: the caller and the clone subprocess
    reader     \* a ChunkedFileReader: the file, its position, the chunk

\* The variables of the HgLoaderFromDisk model, and those of the other
\* components, each of which is studied by a specification of its own.
hgvars == <<repo, nrevs, version, storage, partial, loader, history>>

units == <<bundle20, converted, files, cloning, reader>>

vars == <<repo, nrevs, version, storage, partial, loader, history,
          bundle20, converted, files, cloning, reader>>

\* The value of the variable of a component that a behaviour leaves aside.
Unused == [step |-> "unused"]

\* ------------------------------------------------------------- utilities
Range(s) == {s[i] : i \in DOMAIN s}

Max(S) == CHOOSE x \in S : \A y \in S : y <= x

Min(S) == CHOOSE x \in S : \A y \in S : x <= y

RECURSIVE SortedSeq(_)
\* sorted(S) for a set of integers, ascending.
SortedSeq(S) == IF S = {} THEN <<>> ELSE <<Min(S)>> \o SortedSeq(S \ {Min(S)})

\* ------------------------------------------------- the repository (hg API)
Branches == {"default", "dev"}

\* Paths of the files the changesets write, in byte order:
\* 1 is b"a", 2 is b"d/b".
PathSegs == << <<"a">>, <<"d", "b">> >>

AllPaths == DOMAIN PathSegs

\* hg node id of revision number r in repository R (NULLID for 0).
NodeOf(R, r) == IF r = 0 THEN NULLID ELSE R.node[r]

\* repo[hg_nodeid].rev(): the revision number, 0 when the lookup fails.
RevOfNode(R, n, node) ==
    IF \E r \in 1..n : R.node[r] = node
    THEN CHOOSE r \in 1..n : R.node[r] = node
    ELSE 0

\* rev_ctx.parents(): first and second parent, as revision numbers.
Parents(R, r) == <<R.p1[r], R.p2[r]>>

RECURSIVE Ancestors(_, _)
\* revset "::r": r and all its ancestors.
Ancestors(R, r) ==
    IF r = 0 THEN {}
    ELSE {r} \cup Ancestors(R, R.p1[r]) \cup Ancestors(R, R.p2[r])

\* repo.revs("all()")
AllRevs(n) == 1..n

\* repo.revs("not ::(%ld)", heads)
NotAncestorsOf(R, n, heads) ==
    {r \in 1..n : \A h \in heads : r \notin Ancestors(R, h)}

\* repo.revs("(%ld)::", [rev])
Descendants(R, n, rev) == {d \in 1..n : rev \in Ancestors(R, d)}

\* repo.branchmap(): the heads of a branch are its changesets without a
\* descendant on the same branch; closed heads are listed too.
BranchMap(R, n) ==
    [b \in {R.branch[r] : r \in 1..n} |->
        {R.node[r] : r \in {x \in 1..n :
            /\ R.branch[x] = b
            /\ \A d \in Descendants(R, n, x) : d = x \/ R.branch[d] # b}}]

\* head.closesbranch()
ClosesBranch(R, r) == r \in R.closes

\* hex() of a node id and bytes.fromhex() of it.
Hex(node) == <<"hex", node>>

FromHex(h) == h[2]

RECURSIVE MovedBookmark(_, _, _)
\* Where a bookmark set on changeset r stands when only n changesets exist:
\* stripping a changeset moves its bookmarks to its parent.
MovedBookmark(R, n, r) ==
    IF r <= n THEN r ELSE MovedBookmark(R, n, Max({R.p1[r], R.p2[r]}))

\* bookmarks.listbookmarks(repo): name -> hex node id.
ListBookmarks(R, n) ==
    LET live == {bm \in R.bookmarks : MovedBookmark(R, n, bm[2]) # 0}
    IN  [name \in {bm[1] : bm \in live} |->
            LET bm == CHOOSE x \in live : x[1] = name
            IN  Hex(R.node[MovedBookmark(R, n, bm[2])])]

\* repo.tags(): name -> node id. A tag is defined by the .hgtags file that
\* changeset tag.by commits; tags of unknown nodes are not listed; the
\* pseudo-tag "tip" always is.
Tags(R, n) ==
    LET live == {t \in R.tags : t.by <= n /\ t.target <= n}
    IN  [name \in {t.name : t \in live} \cup {"tip"} |->
            IF name = "tip" THEN NodeOf(R, n)
            ELSE R.node[(CHOOSE t \in live : t.name = name).target]]

\* The manifest of changeset r: path -> <<file node id, flags>>. A negative
\* file node id is one whose filelog entry is missing.
Manifest(R, r) == IF r = 0 THEN [p \in {} |-> <<0, "">>] ELSE R.manifest[r]

\* prev_ctx.status(rev_ctx)
StatusRemoved(prev, cur) == (DOMAIN prev) \ (DOMAIN cur)

StatusAdded(prev, cur) == (DOMAIN cur) \ (DOMAIN prev)

StatusModified(prev, cur) ==
    {p \in (DOMAIN cur) \cap (DOMAIN prev) : cur[p] # prev[p]}

\* ------------------------------------------------------- archive objects
\* FLAG_PERMS: manifest flags -> DentryPerms.
FLAG_PERMS(flags) ==
    CASE flags = "l" -> "symlink"
      [] flags = "x" -> "executable_content"
      [] OTHER -> "content"

\* file_ctx.data(): the bytes of a file revision (one value per file node).
FileData(filenode) == <<"data", filenode>>

\* ModelContent.from_data(data).sha1_git
ContentId(data) == <<"sha1_git", data>>

\* HgDirectory, as the map from the paths of its files to their Content.
EmptyTree == [p \in {} |-> [sha1_git |-> ContentId(FileData(0)), perms |-> "content"]]

IsProperPrefix(a, b) == Len(a) < Len(b) /\ SubSeq(b, 1, Len(a)) = a

\* HgDirectory.__setitem__: sets the file at path p, creating the parent
\* directories; a file standing where a directory is needed, or a directory
\* standing where the file goes, is replaced.
HgDirectory_setitem(t, p, c) ==
    LET keep == {q \in DOMAIN t :
                    /\ ~IsProperPrefix(PathSegs[q], PathSegs[p])
                    /\ ~IsProperPrefix(PathSegs[p], PathSegs[q])}
    IN  [q \in keep \cup {p} |-> IF q = p THEN c ELSE t[q]]

\* HgDirectory.__delitem__ of a present file: the file goes, and with it
\* every parent directory left empty.
HgDirectory_delitem(t, p) == [q \in (DOMAIN t) \ {p} |-> t[q]]

\* The directories of a tree (the root, <<>>, and every sub-directory).
TreeDirs(t) ==
    {<<>>} \cup UNION {{SubSeq(PathSegs[q], 1, k) : k \in 1..(Len(PathSegs[q]) - 1)} :
                        q \in DOMAIN t}

\* directory.to_model().id / directory.hash: a function of the entries below
\* the directory (names, content ids and permissions).
DirectoryId(t, dir) ==
    <<"directory",
      {<<SubSeq(PathSegs[q], Len(dir) + 1, Len(PathSegs[q])), t[q]>> :
          q \in {x \in DOMAIN t : IsProperPrefix(dir, PathSegs[x])}}>>

\* The extra headers store_revision keeps: every extra of the changeset but
\* branch=default.
ExtraHeaders(R, r) ==
    (IF R.branch[r] = "default" THEN {} ELSE {<<"branch", R.branch[r]>>})
    \cup (IF ClosesBranch(R, r) THEN {<<"close", "1">>} ELSE {})

\* Revision(...).id: a function of the fields of the revision.
RevisionId(R, r, directory, parents) ==
    [type |-> "hg", directory |-> directory, parents |-> parents,
     message |-> <<"description", R.node[r]>>,
     extra_headers |-> ExtraHeaders(R, r)]

\* Release(...).id
ReleaseId(name, target) ==
    [name |-> name, target |-> target, target_type |-> "revision"]

\* ExtID(extid_type, extid_version, extid, target=CoreSWHID(REVISION, id))
\* Variant: the ExtID carries the version the module was written with, not
\* the current value of EXTID_VERSION.
ExtID_InitialVersion(ver, node, revid) ==
    [extid_type |-> EXTID_TYPE, extid_version |-> EXTID_VERSION,
     extid |-> node,
     target |-> [object_type |-> "revision", object_id |-> revid]]

ExtID(ver, node, revid) ==
    [extid_type |-> EXTID_TYPE, extid_version |-> ver, extid |-> node,
     target |-> [object_type |-> "revision", object_id |-> revid]]

\* --------------------------------------------------------------- storage
EmptyStorage ==
    [content |-> {}, directory |-> {}, revision |-> {}, release |-> {},
     snapshot |-> {}, extid |-> {}, visits |-> <<>>]

\* storage.extid_get_from_target(ObjectType.REVISION, targets)
ExtidGetFromTarget(sto, targets) ==
    {e \in sto.extid :
        e.target.object_type = "revision" /\ e.target.object_id \in targets}

\* storage.extid_get_from_extid(EXTID_TYPE, ids=[node])
ExtidGetFromExtid(sto, node) ==
    {e \in sto.extid : e.extid_type = EXTID_TYPE /\ e.extid = node}

\* storage.revision_missing(ids)
RevisionMissing(sto, ids) == ids \ sto.revision

\* snapshot_get_latest(storage, origin_url): the snapshot of the latest visit
\* that has one, as a set ({} when there is none or it is not in storage).
SnapshotGetLatest(sto) ==
    LET with == {i \in DOMAIN sto.visits : sto.visits[i].snapshot # {}}
    IN  IF with = {} THEN {}
        ELSE sto.visits[Max(with)].snapshot \cap sto.snapshot

\* ------------------------------------------------------ HgLoaderFromDisk
\* HgLoaderFromDisk.__init__: the fields of a new loader instance.
NewLoaderState ==
    [revision_nodeid_to_sha1git |-> [x \in {} |-> 0],
     last_hg_nodeid |-> NULLID,
     last_root |-> EmptyTree,
     content_hash_cache |-> [x \in {} |-> 0],
     latest_heads |-> {},
     saved_tags |-> {},
     load_status |-> "eventful",
     visit_status |-> "None",
     loaded_snapshot_id |-> {}]

\* _get_extids_for_targets: the ExtIDs of the type and of the current version
\* for the targets, without those whose target revision is missing.
\* Variant: the dangling ExtIDs are not filtered out.
GetExtidsForTargets_KeepDangling(sto, ver, targets) ==
    {e \in ExtidGetFromTarget(sto, targets) :
        e.extid_type = EXTID_TYPE /\ e.extid_version = ver}

GetExtidsForTargets(sto, ver, targets) ==
    LET extids == {e \in ExtidGetFromTarget(sto, targets) :
                      e.extid_type = EXTID_TYPE /\ e.extid_version = ver}
        revisions_missing ==
            RevisionMissing(sto, {e.target.object_id : e \in extids})
    IN  {e \in extids : e.target.object_id \notin revisions_missing}

\* Variant: the tags of the latest snapshot are recorded as saved, under the
\* node id of the revision their release targets.
SetRecordedState_SavedTags(ld, sto, ver, branches) ==
    LET heads == {branches[b].target :
                    b \in {x \in DOMAIN branches :
                              branches[x].target_type = "revision"}}
        tags == {branches[b].target.target :
                    b \in {x \in DOMAIN branches :
                              branches[x].target_type = "release"}}
    IN  [ld EXCEPT
            !.latest_heads =
                @ \cup {e.extid : e \in GetExtidsForTargets(sto, ver, heads)},
            !.saved_tags =
                @ \cup {e.extid : e \in GetExtidsForTargets(sto, ver, tags)}]

\* _set_recorded_state: the loader fields after reading the latest snapshot
\* (branches: name -> [target_type, target]).
SetRecordedState(ld, sto, ver, branches) ==
    LET heads == {branches[b].target :
                    b \in {x \in DOMAIN branches :
                              branches[x].target_type = "revision"}}
        tags == {branches[b].target :
                    b \in {x \in DOMAIN branches :
                              branches[x].target_type = "release"}}
    IN  [ld EXCEPT
            !.latest_heads =
                @ \cup {e.extid : e \in GetExtidsForTargets(sto, ver, heads)},
            !.saved_tags =
                @ \cup {e.extid : e \in GetExtidsForTargets(sto, ver, tags)}]

\* prepare(): _latest_heads is reset, then the latest snapshot is read.
Prepare(ld, sto, ver) ==
    LET reset == [ld EXCEPT !.latest_heads = {}]
        latest_snapshot == SnapshotGetLatest(sto)
    IN  IF latest_snapshot = {} THEN reset
        ELSE SetRecordedState(reset, sto, ver,
                              CHOOSE snp \in latest_snapshot : TRUE)

\* get_hg_revs_to_load(): the revision numbers to load.
GetHgRevsToLoad(R, n, ld) ==
    IF ld.latest_heads # {}
    THEN LET existing_heads ==
                {RevOfNode(R, n, node) : node \in ld.latest_heads} \ {0}
         IN  NotAncestorsOf(R, n, existing_heads)
    ELSE AllRevs(n)

\* get_revision_id_from_hg_nodeid: a set holding the revision id, or {} when
\* the assertion "Expected 1 match from storage" fails.
GetRevisionIdFromHgNodeid(ld, sto, ver, hg_nodeid) ==
    IF hg_nodeid \in DOMAIN ld.revision_nodeid_to_sha1git
    THEN {ld.revision_nodeid_to_sha1git[hg_nodeid]}
    ELSE LET from_storage ==
                {e \in ExtidGetFromExtid(sto, hg_nodeid) :
                    e.extid_version = ver}
         IN  IF Cardinality(from_storage) = 1
             THEN {e.target.object_id : e \in from_storage}
             ELSE {}

\* The state threaded through store_data: st.sto the storage, st.ld the
\* loader, st.revs the revisions to load, st.loaded those store_revision
\* returned for, st.ignored the ignored_revs, st.raised the revisions that
\* raised CorruptedRevision, st.exc the
\* exception being raised ("" for none), st.log the objects given to the
\* storage, in order.
StoreState(sto, ld) ==
    [sto |-> sto, ld |-> ld, revs |-> {}, loaded |-> {}, ignored |-> {},
     raised |-> {}, exc |-> "", log |-> <<>>]

\* store_content(rev_ctx, file_path): the state after the call.
StoreContent(R, st, r, p) ==
    LET file_nodeid == Manifest(R, r)[p][1]
        perms == FLAG_PERMS(Manifest(R, r)[p][2])
        cache_key == <<file_nodeid, perms>>
        cache == st.ld.content_hash_cache
        sha1_git == ContentId(FileData(file_nodeid))
    IN  IF file_nodeid < 0
        THEN [st EXCEPT !.exc = "CorruptedRevision"]
        ELSE IF cache_key \in DOMAIN cache THEN st
        ELSE [st EXCEPT
                !.sto.content = @ \cup {sha1_git},
                !.log = Append(@, <<"content", sha1_git>>),
                !.ld.content_hash_cache =
                    [k \in DOMAIN cache \cup {cache_key} |->
                        IF k = cache_key THEN sha1_git ELSE cache[k]]]

\* The Content store_content returns, read after the call.
ReturnedContent(R, st, r, p) ==
    [sha1_git |->
        st.ld.content_hash_cache[<<Manifest(R, r)[p][1],
                                   FLAG_PERMS(Manifest(R, r)[p][2])>>],
     perms |-> FLAG_PERMS(Manifest(R, r)[p][2])]

\* self._last_root[file_path] = content, after store_content returned.
SetContent(R, st, r, p) ==
    IF st.exc # "" THEN st
    ELSE [st EXCEPT !.ld.last_root =
            HgDirectory_setitem(@, p, ReturnedContent(R, st, r, p))]

\* del self._last_root[file_path]: a KeyError becomes a CorruptedRevision.
DelContent(st, p) ==
    IF p \notin DOMAIN st.ld.last_root
    THEN [st EXCEPT !.exc = "CorruptedRevision"]
    ELSE [st EXCEPT !.ld.last_root = HgDirectory_delitem(@, p)]

RECURSIVE ApplyStatus(_, _, _, _, _)
\* The three loops of store_directories over status.removed, status.added
\* and status.modified (ops[i] is <<"del", path>> or <<"set", path>>).
ApplyStatus(R, st, r, ops, i) ==
    IF i > Len(ops) \/ st.exc # "" THEN st
    ELSE ApplyStatus(R,
            IF ops[i][1] = "del" THEN DelContent(st, ops[i][2])
            ELSE SetContent(R, StoreContent(R, st, r, ops[i][2]), r, ops[i][2]),
            r, ops, i + 1)

Tagged(tag, s) == [i \in 1..Len(s) |-> <<tag, s[i]>>]

\* The order in which store_directories adds the directories of a tree.
DirectoryOrder(t) ==
    LET dirs == TreeDirs(t)
        ByLen(k) == {d \in dirs : Len(d) = k}
    IN  IF ByLen(1) = {} THEN <<DirectoryId(t, <<>>)>>
        ELSE <<DirectoryId(t, <<>>),
               DirectoryId(t, CHOOSE d \in ByLen(1) : TRUE)>>

\* The end of store_directories, after the loops over the status: the new
\* _last_hg_nodeid, and directory_add of the root and of every directory
\* below it.
AddDirectories(R, st, r) ==
    IF st.exc # "" THEN st
    ELSE [st EXCEPT
            !.ld.last_hg_nodeid = NodeOf(R, r),
            !.sto.directory =
                @ \cup {DirectoryId(st.ld.last_root, d) :
                            d \in TreeDirs(st.ld.last_root)},
            !.log = @ \o Tagged("directory", DirectoryOrder(st.ld.last_root))]

\* The status of the changeset against the last one processed, as the
\* operations store_directories applies to _last_root.
StatusOps(prev, cur) ==
    Tagged("del", SortedSeq(StatusRemoved(prev, cur)))
    \o Tagged("set", SortedSeq(StatusAdded(prev, cur)))
    \o Tagged("set", SortedSeq(StatusModified(prev, cur)))

\* store_directories(rev_ctx): the state after the call.
StoreDirectories(R, n, st, r) ==
    IF /\ st.ld.last_hg_nodeid # NULLID
       /\ RevOfNode(R, n, st.ld.last_hg_nodeid) = 0
    THEN [st EXCEPT !.exc = "LookupError"]
    ELSE AddDirectories(R,
            ApplyStatus(R, st, r,
                StatusOps(Manifest(R, RevOfNode(R, n, st.ld.last_hg_nodeid)),
                          Manifest(R, r)),
                1),
            r)

\* get_revision_parents(rev_ctx): a set holding the tuple of the parents'
\* revision ids, or {} when a parent cannot be resolved.
GetRevisionParents(R, st, ver, r) ==
    LET ps == SelectSeq(Parents(R, r), LAMBDA p : NodeOf(R, p) # NULLID)
        ids == [i \in 1..Len(ps) |->
                    GetRevisionIdFromHgNodeid(st.ld, st.sto, ver,
                                              NodeOf(R, ps[i]))]
    IN  IF \E i \in 1..Len(ps) : ids[i] = {} THEN {}
        ELSE {[i \in 1..Len(ps) |-> CHOOSE x \in ids[i] : TRUE]}

\* The end of store_revision, after store_directories returned: the
\* revision is built, recorded in the node map, added, and its ExtID added.
AddRevision(R, st, ver, r) ==
    LET hg_nodeid == NodeOf(R, r)
        parents == GetRevisionParents(R, st, ver, r)
        revision_id ==
            RevisionId(R, r, DirectoryId(st.ld.last_root, <<>>),
                       CHOOSE x \in parents : TRUE)
        nodemap == st.ld.revision_nodeid_to_sha1git
    IN  IF st.exc # "" THEN st
        ELSE IF parents = {} THEN [st EXCEPT !.exc = "AssertionError"]
        ELSE [st EXCEPT
                !.ld.revision_nodeid_to_sha1git =
                    [k \in DOMAIN nodemap \cup {hg_nodeid} |->
                        IF k = hg_nodeid THEN revision_id ELSE nodemap[k]],
                !.sto.revision = @ \cup {revision_id},
                !.sto.extid = @ \cup {ExtID(ver, hg_nodeid, revision_id)},
                !.loaded = @ \cup {r},
                !.log = @ \o <<<<"revision", revision_id>>,
                               <<"extid", ExtID(ver, hg_nodeid, revision_id)>>>>]

\* Variant: the revision is added before its directories are stored.
StoreRevision_RevisionFirst(R, n, st, ver, r) ==
    StoreDirectories(R, n, AddRevision(R, st, ver, r), r)

\* store_revision(rev_ctx): the state after the call.
StoreRevision(R, n, st, ver, r) ==
    AddRevision(R, StoreDirectories(R, n, st, r), ver, r)

\* The except clause of the loop of store_data: a CorruptedRevision makes
\* the visit partial and the revision and its descendants ignored.
\* Variant: only the corrupted revision is ignored, not its descendants.
ExceptCorruptedRevision_OnlyRev(R, n, st, rev) ==
    IF st.exc # "CorruptedRevision" THEN st
    ELSE [st EXCEPT !.exc = "",
                    !.ld.visit_status = "partial",
                    !.raised = @ \cup {rev},
                    !.ignored = @ \cup {rev}]

ExceptCorruptedRevision(R, n, st, rev) ==
    IF st.exc # "CorruptedRevision" THEN st
    ELSE [st EXCEPT !.exc = "",
                    !.ld.visit_status = "partial",
                    !.raised = @ \cup {rev},
                    !.ignored = @ \cup Descendants(R, n, rev)]

RECURSIVE StoreRevs(_, _, _, _, _, _)
\* The loop of store_data over the revisions to load (revs in ascending
\* order); an exception other than CorruptedRevision ends it.
StoreRevs(R, n, st, ver, revs, i) ==
    IF i > Len(revs) \/ st.exc # "" THEN st
    ELSE StoreRevs(R, n,
            IF revs[i] \in st.ignored THEN st
            ELSE ExceptCorruptedRevision(R, n,
                    StoreRevision(R, n, st, ver, revs[i]), revs[i]),
            ver, revs, i + 1)

\* ----------------------------------------------------------- hgutil.py
\* The name of a snapshot branch: b"<kind>/<name>/<idx>", b"<kind>/<name>"
\* (idx = -1) or b"HEAD" (name = "", idx = -1).
BranchName(kind, name, idx) == [kind |-> kind, name |-> name, idx |-> idx]

\* Variant: the tip of a branch is the last of its open heads.
BranchTip_Last(open_heads) == open_heads[Len(open_heads)]

\* The tip of a branch, given its open heads sorted by node id: the first
\* head met sets branch_tips[branch_name], the later ones leave it.
BranchTip(open_heads) == open_heads[1]

\* Variant: the branches with one open head keep their entry.
DeleteBranchesWithOneHead_None(branch_open_heads) == branch_open_heads

\* branch_open_heads after the entries of the branches with one open head
\* were deleted.
DeleteBranchesWithOneHead(branch_open_heads) ==
    [b \in {x \in DOMAIN branch_open_heads : Len(branch_open_heads[x]) # 1}
        |-> branch_open_heads[b]]

\* Variant: the alias names the first open head of default.
DefaultBranchAlias_OpenHead == BranchName("branch-heads", "default", 0)

\* default_rev_alias = b"branch-tip/default"
DefaultBranchAlias == BranchName("branch-tip", "default", -1)

\* hgutil.branching_info(repo, ignored): the BranchingInfo.
branching_info(R, n, ignored) ==
    LET branchmap == BranchMap(R, n)
        all_bookmarks == ListBookmarks(R, n)
        Kept(b) == SelectSeq(SortedSeq(branchmap[b]),
                       LAMBDA h : RevOfNode(R, n, h) \notin ignored)
        Open(b) == SelectSeq(Kept(b),
                       LAMBDA h : ~ClosesBranch(R, RevOfNode(R, n, h)))
        Closed(b) == SelectSeq(Kept(b),
                       LAMBDA h : ClosesBranch(R, RevOfNode(R, n, h)))
        branch_tips ==
            [b \in {x \in DOMAIN branchmap : Open(x) # <<>>} |->
                BranchTip(Open(b))]
        default_rev_alias ==
            IF /\ "@" \in DOMAIN all_bookmarks
               /\ R.branch[RevOfNode(R, n, FromHex(all_bookmarks["@"]))]
                      \in DOMAIN branch_tips
            THEN {BranchName("bookmarks", "@", -1)}
            ELSE IF "default" \in DOMAIN branch_tips
            THEN {DefaultBranchAlias}
            ELSE {}
    IN  [tips |-> branch_tips,
         bookmarks |-> [name \in DOMAIN all_bookmarks |->
                            FromHex(all_bookmarks[name])],
         open_heads |->
            DeleteBranchesWithOneHead(
                [b \in {x \in DOMAIN branchmap : Open(x) # <<>>} |-> Open(b)]),
         closed_heads |->
            [b \in {x \in DOMAIN branchmap : Closed(x) # <<>>} |-> Closed(b)],
         default_branch_alias |-> default_rev_alias]

\* ------------------------------------------------- store_data, the snapshot
\* store_release(name, target): the state after the call.
StoreRelease(st, name, target) ==
    [st EXCEPT !.sto.release = @ \cup {ReleaseId(name, target)},
               !.log = Append(@, <<"release", ReleaseId(name, target)>>)]

RECURSIVE StoreTags(_, _, _, _)
\* The loop of store_data over repo.tags(): a release for every tag but
\* "tip" whose node is not in _saved_tags.
StoreTags(st, ver, tags_by_name, todo) ==
    IF todo = {} \/ st.exc # "" THEN st
    ELSE LET tag_name == CHOOSE x \in todo : TRUE
             hg_nodeid == tags_by_name[tag_name]
             target == GetRevisionIdFromHgNodeid(st.ld, st.sto, ver, hg_nodeid)
         IN  IF tag_name = "tip" \/ hg_nodeid \in st.ld.saved_tags
             THEN StoreTags(st, ver, tags_by_name, todo \ {tag_name})
             ELSE IF target = {}
             THEN [st EXCEPT !.exc = "AssertionError"]
             ELSE StoreTags(StoreRelease(st, tag_name,
                                         CHOOSE x \in target : TRUE),
                            ver, tags_by_name, todo \ {tag_name})

\* The snapshot branches store_data gives to the heads and bookmarks:
\* branch name -> hg node id.
RevisionBranches(info) ==
    LET names ==
            {BranchName("branch-tip", b, -1) : b \in DOMAIN info.tips}
            \cup {BranchName("bookmarks", b, -1) : b \in DOMAIN info.bookmarks}
            \cup UNION {{BranchName("branch-heads", b, i - 1) :
                            i \in 1..Len(info.open_heads[b])} :
                        b \in DOMAIN info.open_heads}
            \cup UNION {{BranchName("branch-closed-heads", b, i - 1) :
                            i \in 1..Len(info.closed_heads[b])} :
                        b \in DOMAIN info.closed_heads}
    IN  [nm \in names |->
            CASE nm.kind = "branch-tip" -> info.tips[nm.name]
              [] nm.kind = "bookmarks" -> info.bookmarks[nm.name]
              [] nm.kind = "branch-heads" ->
                    info.open_heads[nm.name][nm.idx + 1]
              [] OTHER -> info.closed_heads[nm.name][nm.idx + 1]]

\* The Snapshot store_data builds (branch name -> SnapshotBranch), once
\* every node id was resolved.
SnapshotBranches(st, ver, info, tags_by_name) ==
    LET revs == RevisionBranches(info)
        tagged == {t \in (DOMAIN tags_by_name) \ {"tip"} :
                      tags_by_name[t] \notin st.ld.saved_tags}
        Resolve(node) ==
            CHOOSE x \in GetRevisionIdFromHgNodeid(st.ld, st.sto, ver, node) :
                TRUE
        names == DOMAIN revs
                 \cup {BranchName("tags", t, -1) : t \in tagged}
                 \cup (IF info.default_branch_alias = {} THEN {}
                       ELSE {BranchName("HEAD", "", -1)})
    IN  [nm \in names |->
            CASE nm.kind = "tags" ->
                    [target_type |-> "release",
                     target |-> ReleaseId(nm.name,
                                          Resolve(tags_by_name[nm.name]))]
              [] nm.kind = "HEAD" ->
                    [target_type |-> "alias",
                     target |-> CHOOSE x \in info.default_branch_alias : TRUE]
              [] OTHER ->
                    [target_type |-> "revision", target |-> Resolve(revs[nm])]]

\* The end of store_data: the snapshot is built and added.
AddSnapshot(st, ver, info, tags_by_name) ==
    LET heads == RevisionBranches(info)
        snapshot == SnapshotBranches(st, ver, info, tags_by_name)
    IN  IF st.exc # "" THEN st
        ELSE IF \E nm \in DOMAIN heads :
                    GetRevisionIdFromHgNodeid(st.ld, st.sto, ver, heads[nm]) = {}
        THEN [st EXCEPT !.exc = "AssertionError"]
        ELSE [st EXCEPT !.sto.snapshot = @ \cup {snapshot},
                        !.log = Append(@, <<"snapshot", snapshot>>),
                        !.ld.loaded_snapshot_id = {snapshot}]

\* store_data() after its loop over the revisions, with the branching_info
\* and the tags of the repository.
StoreSnapshot(st, ver, info, tags_by_name) ==
    IF st.exc # "" THEN st
    ELSE IF Cardinality(st.ignored) = Cardinality(st.revs)
    THEN [st EXCEPT !.ld.load_status = "uneventful"]
    ELSE AddSnapshot(StoreTags(st, ver, tags_by_name, DOMAIN tags_by_name),
                     ver, info, tags_by_name)

\* store_data() after get_hg_revs_to_load() returned st.revs.
StoreLoaded(R, n, st, ver) ==
    StoreSnapshot(st, ver, branching_info(R, n, st.ignored), Tags(R, n))

\* store_data(): the state after the call.
StoreData(R, n, st, ver) ==
    LET revs == GetHgRevsToLoad(R, n, st.ld)
    IN  IF revs = {}
        THEN [st EXCEPT !.ld.load_status = "uneventful"]
        ELSE StoreLoaded(R, n,
                StoreRevs(R, n, [st EXCEPT !.revs = revs], ver,
                          SortedSeq(revs), 1),
                ver)

\* The end of load(): the visit is given its final status and snapshot; an
\* exception makes the load "failed".
EndVisit(st) ==
    LET visit_status ==
            IF st.exc # ""
            THEN (IF st.ld.loaded_snapshot_id = {} THEN "failed" ELSE "partial")
            ELSE IF st.ld.visit_status # "None" THEN st.ld.visit_status
            ELSE "full"
    IN  [st EXCEPT !.sto.visits[Len(st.sto.visits)] =
            [status |-> visit_status, snapshot |-> st.ld.loaded_snapshot_id]]

\* The origin visit load() creates before it prepares.
Visited(sto) ==
    [sto EXCEPT !.visits = Append(@, [status |-> "created", snapshot |-> {}])]

\* load(), as the loader base class runs it: the origin visit is created,
\* prepare() and store_data() run, and the visit is closed.
LoadResult(R, n, ld, sto, ver) ==
    EndVisit(StoreData(R, n,
                StoreState(Visited(sto), Prepare(ld, Visited(sto), ver)),
                ver))

\* What load() returns: load_status()["status"], or "failed".
LoadStatus(st) == IF st.exc # "" THEN "failed" ELSE st.ld.load_status

\* -------------------------------------------------- the repositories loaded
RECURSIVE WrittenPath(_, _)
\* The path of the file changeset r writes (a new file revision at every
\* changeset): the root writes b"a"; a child of the root writes b"d/b" when
\* its revision number is even and b"a" when it is odd; any other changeset
\* writes again the file its parent wrote.
WrittenPath(p1, r) ==
    IF p1[r] = 0 THEN 1
    ELSE IF p1[p1[r]] = 0 THEN (IF r % 2 = 0 THEN 2 ELSE 1)
    ELSE WrittenPath(p1, p1[r])

RECURSIVE MkManifest(_, _, _, _)
\* The manifest of changeset r: that of its parent, with the file r writes
\* (its filelog entry is missing when r is the corrupted changeset); a
\* changeset of renames that writes b"d/b" moved b"a" there (hg mv).
MkManifest(p1, corrupt, renames, r) ==
    LET base == IF p1[r] = 0 THEN [p \in {} |-> <<0, "">>]
                ELSE MkManifest(p1, corrupt, renames, p1[r])
        path == WrittenPath(p1, r)
        kept == IF r \in renames /\ path = 2 THEN (DOMAIN base) \ {1}
                ELSE DOMAIN base
    IN  [p \in kept \cup {path} |->
            IF p # path THEN base[p]
            ELSE <<IF r = corrupt THEN 0 - r ELSE r,
                   IF path = 2 THEN "x" ELSE "">>]

\* The bookmark or tag a repository carries (at most one of them).
Labels ==
    {[bookmarks |-> {}, tags |-> {}]}
    \cup {[bookmarks |-> {<<"@", r>>}, tags |-> {}] : r \in 1..MaxRevs}
    \cup {[bookmarks |-> {},
           tags |-> {[name |-> "t", target |-> tb[1], by |-> tb[2]]}] :
          tb \in {x \in (1..MaxRevs) \X (1..MaxRevs) : x[1] < x[2]}}

\* The node id of changeset r: node ids are hashes, their order is not the
\* order of the revision numbers (here it is the reverse order).
NodeIds == [r \in 1..MaxRevs |-> MaxRevs + 1 - r]

MkRepo(p1, branch, closes, corrupt, renames, label) ==
    [p1 |-> p1,
     p2 |-> [r \in 1..MaxRevs |-> 0],
     branch |-> branch,
     closes |-> closes,
     node |-> NodeIds,
     manifest |-> [r \in 1..MaxRevs |->
                      MkManifest(p1, corrupt, renames, r)],
     bookmarks |-> label.bookmarks,
     tags |-> label.tags]

\* The repositories: one root, every later changeset a child of an earlier
\* one, each on one of two named branches, at most one changeset closing its
\* branch, at most one corrupted, the second changeset possibly a rename.
Repositories ==
    {MkRepo(p1, branch, closes, corrupt, renames, label) :
        p1 \in {f \in [1..MaxRevs -> 0..(MaxRevs - 1)] :
                    /\ f[1] = 0
                    /\ \A r \in 2..MaxRevs : f[r] \in 1..(r - 1)},
        branch \in {f \in [1..MaxRevs -> Branches] : f[1] = "default"},
        closes \in {{}} \cup {{r} : r \in 2..MaxRevs},
        corrupt \in 0..MaxRevs,
        renames \in {{}, {2}},
        label \in Labels}

\* ------------------------------------------------------ the state machine
Init ==
    /\ repo \in Repositories
    /\ nrevs \in {MaxRevs - 1, MaxRevs}
    /\ version = EXTID_VERSION
    /\ storage = EmptyStorage
    /\ partial = FALSE
    /\ loader = NewLoaderState
    /\ history = [loads |-> <<>>, pending |-> {}]
    /\ bundle20 = Unused
    /\ converted = Unused
    /\ files = Unused
    /\ cloning = Unused
    /\ reader = Unused

RECURSIVE Changes(_, _)
\* The number of changes made around the loads so far.
Changes(h, i) ==
    IF i = 0 THEN Cardinality(h.pending)
    ELSE Cardinality(h.loads[i].env) + Changes(h, i - 1)

MoreLoads == Len(history.loads) < MaxLoads

Change(op) ==
    /\ MoreLoads
    /\ history.loads # <<>>
    /\ op \notin history.pending
    /\ Changes(history, Len(history.loads)) < MaxChanges
    /\ history' = [history EXCEPT !.pending = @ \cup {op}]

\* The record of one load() in the history.
LoadRecord(ld, st) ==
    [status |-> LoadStatus(st),
     visit_status |-> st.sto.visits[Len(st.sto.visits)].status,
     exc |-> st.exc,
     revs |-> st.revs,
     loaded |-> st.loaded,
     ignored |-> st.ignored,
     raised |-> st.raised,
     latest_heads |-> st.ld.latest_heads,
     override |-> st.ld.visit_status,
     log |-> st.log,
     before |-> storage,
     after |-> st.sto,
     nrevs |-> nrevs,
     version |-> version,
     new |-> (ld = NewLoaderState),
     env |-> history.pending]

\* The state after one load() that ended in st.
Loaded(ld, st) ==
    /\ storage' = st.sto
    /\ loader' = st.ld
    /\ history' = [loads |-> Append(history.loads, LoadRecord(ld, st)),
                   pending |-> {}]
    /\ UNCHANGED <<repo, nrevs, version, partial, units>>

\* One load() by the loader instance ld.
DoLoad(ld) == Loaded(ld, LoadResult(repo, nrevs, ld, storage, version))

\* loader.load() once more on the loader instance that loaded before.
Load ==
    /\ MoreLoads
    /\ DoLoad(loader)

\* HgLoaderFromDisk(storage, url).load(): a load by a new loader instance.
LoadNew ==
    /\ MoreLoads
    /\ loader # NewLoaderState
    /\ DoLoad(NewLoaderState)

\* hg_strip(repo, "tip"): the last changeset is removed from the repository.
Strip ==
    /\ Change("strip")
    /\ nrevs > 1
    /\ nrevs' = nrevs - 1
    /\ UNCHANGED <<repo, version, storage, partial, loader, units>>

\* The stripped changesets come back (the complete repository is loaded).
Restore ==
    /\ Change("restore")
    /\ nrevs < MaxRevs
    /\ nrevs' = MaxRevs
    /\ UNCHANGED <<repo, version, storage, partial, loader, units>>

\* _partial_copy_storage(old_storage, url, "extid", copy_revisions) and a new
\* loader on the new storage: the ExtIDs of the targets of the latest
\* snapshot, these revisions if asked, the latest visit and the snapshot.
PartialCopyStorage(copy_revisions) ==
    /\ Change(IF copy_revisions THEN "copy_revisions" ELSE "copy_extids")
    /\ ~partial
    /\ SnapshotGetLatest(storage) # {}
    /\ LET snapshot == CHOOSE x \in SnapshotGetLatest(storage) : TRUE
           heads == {snapshot[b].target : b \in DOMAIN snapshot}
       IN  storage' =
              [EmptyStorage EXCEPT
                 !.extid = ExtidGetFromTarget(storage, heads),
                 !.revision = IF copy_revisions
                              THEN heads \cap storage.revision ELSE {},
                 !.visits = <<storage.visits[Len(storage.visits)]>>,
                 !.snapshot = {snapshot}]
    /\ partial' = TRUE
    /\ loader' = NewLoaderState
    /\ UNCHANGED <<repo, nrevs, version, units>>

\* patch.object(from_disk, "EXTID_VERSION", ...): a new version of the ExtIDs.
PatchVersion ==
    /\ Change("patch")
    /\ version < EXTID_VERSION + MaxPatches
    /\ version' = version + 1
    /\ UNCHANGED <<repo, nrevs, storage, partial, loader, units>>

Next ==
    \/ Load
    \/ LoadNew
    \/ Strip
    \/ Restore
    \/ \E copy_revisions \in BOOLEAN : PartialCopyStorage(copy_revisions)
    \/ PatchVersion

Spec == Init /\ [][Next]_vars

\* ===================================================== bundle20_loader.py
\* HgBundle20Loader: get_revisions, get_releases and get_snapshot of one
\* visit, over the changesets and the .hgtags blob read from the bundle.

\* Number of changesets of the bundle.
MaxChangesets == 3
\* Number of lines of the .hgtags blob.
MaxTagLines == 2

\* The changelogs of a bundle: changeset r has the parents p1[r] and p2[r]
\* (NULLID for none), which come before it in the bundle.
Changelogs ==
    {cl \in [p1 : [1..MaxChangesets -> 0..(MaxChangesets - 1)],
             p2 : [1..MaxChangesets -> 0..(MaxChangesets - 1)]] :
        \A r \in 1..MaxChangesets :
            /\ cl.p1[r] < r /\ cl.p2[r] < r
            /\ cl.p2[r] # NULLID => (cl.p1[r] # NULLID /\ cl.p1[r] # cl.p2[r])}

\* The first field of a .hgtags line: whether it is a string of hexadecimal
\* digit pairs, its length, and the node it names when it is a node id
\* (node MaxChangesets + 1 is a changeset the bundle does not hold).
TagNodeFields ==
    {[hex |-> TRUE, len |-> 40, node |-> r] : r \in 1..(MaxChangesets + 1)}
    \cup {[hex |-> TRUE, len |-> 8, node |-> NULLID],
          [hex |-> FALSE, len |-> 40, node |-> NULLID]}

TagNames == {"v1", "v2"}

\* The lines of the .hgtags blob: b"<node> <name>".
TagLines == [node : TagNodeFields, name : TagNames]

TagBlobs ==
    UNION {[1..k -> TagLines] : k \in 0..MaxTagLines}

\* The changesets without a child: the heads get_heads reads.
Bundle20Heads(cl) ==
    {r \in 1..MaxChangesets :
        \A c \in 1..MaxChangesets : cl.p1[c] # r /\ cl.p2[c] # r}

\* The loader after prepare(): the branches, tags, releases and node_2_rev
\* are empty; self.heads holds the head of the branch; self.reduce_effort
\* the changesets older than the visit date.
Bundle20Prepared(cl, reduce_effort, tags, head) ==
    [step |-> "prepared",
     changesets |-> cl,
     reduce_effort |-> reduce_effort,
     tags |-> tags,
     heads |-> [b \in {"default"} |-> head],
     node_2_rev |-> [x \in {} |-> 0],
     revisions |-> {},
     releases |-> [x \in {} |-> 0],
     yielded |-> {},
     warnings |-> 0,
     snapshot |-> {},
     exc |-> ""]

\* p = self.node_2_rev.get(header[parent]); if p: parents.append(p)
Bundle20Parent(b, parent) ==
    IF parent \in DOMAIN b.node_2_rev THEN <<b.node_2_rev[parent]>> ELSE <<>>

\* The revision get_revisions builds for changeset r; its id is a function
\* of its fields.
Bundle20Revision(b, r) ==
    [node |-> r,
     parents |-> Bundle20Parent(b, b.changesets.p1[r])
                 \o Bundle20Parent(b, b.changesets.p2[r])]

RECURSIVE Bundle20Changesets(_, _)
\* The loop of get_revisions over yield_all_changesets(), from changeset r.
Bundle20Changesets(b, r) ==
    IF r > MaxChangesets THEN b
    ELSE IF r \in b.reduce_effort THEN Bundle20Changesets(b, r + 1)
    ELSE Bundle20Changesets(
            [b EXCEPT
                !.node_2_rev =
                    [k \in DOMAIN b.node_2_rev \cup {r} |->
                        IF k = r THEN Bundle20Revision(b, r)
                        ELSE b.node_2_rev[k]],
                !.revisions = @ \cup {Bundle20Revision(b, r)}],
            r + 1)

\* The end of get_revisions: the heads are converted with node_2_rev, a
\* head that is not in it raises KeyError.
Bundle20ConvertHeads(b) ==
    IF \E name \in DOMAIN b.heads : b.heads[name] \notin DOMAIN b.node_2_rev
    THEN [b EXCEPT !.step = "failed", !.exc = "KeyError"]
    ELSE [b EXCEPT !.step = "revisions",
                   !.heads = [name \in DOMAIN b.heads |->
                                 b.node_2_rev[b.heads[name]]]]

\* get_revisions(), iterated to its end.
GetRevisions(b) == Bundle20ConvertHeads(Bundle20Changesets(b, 1))

\* TAG_PATTERN.match(node): the field starts with 40 hexadecimal digits.
TAG_PATTERN(field) == field.hex /\ field.len >= 40

\* The release get_releases builds; its id is a function of its fields.
Bundle20Release(name, tgt_rev) ==
    [name |-> name, target |-> tgt_rev, target_type |-> "revision"]

RECURSIVE Bundle20Tags(_, _)
\* The loop of get_releases over self.tags, from line i: hash_to_bytes(node)
\* raises ValueError on a field that is not hexadecimal, before the pattern
\* is tested; a field that is no node id, or a node without revision, is
\* skipped with a warning.
Bundle20Tags(b, i) ==
    IF i > Len(b.tags) THEN [b EXCEPT !.step = "releases"]
    ELSE IF ~b.tags[i].node.hex
    THEN [b EXCEPT !.step = "failed", !.exc = "ValueError"]
    ELSE IF ~TAG_PATTERN(b.tags[i].node)
    THEN Bundle20Tags([b EXCEPT !.warnings = @ + 1], i + 1)
    ELSE IF b.tags[i].node.node \notin DOMAIN b.node_2_rev
    THEN Bundle20Tags([b EXCEPT !.warnings = @ + 1], i + 1)
    ELSE Bundle20Tags(
            [b EXCEPT
                !.yielded = @ \cup
                    {Bundle20Release(b.tags[i].name,
                                     b.node_2_rev[b.tags[i].node.node])},
                !.releases =
                    [k \in DOMAIN b.releases \cup {b.tags[i].name} |->
                        IF k = b.tags[i].name
                        THEN Bundle20Release(b.tags[i].name,
                                 b.node_2_rev[b.tags[i].node.node])
                        ELSE b.releases[k]]],
            i + 1)

\* get_releases(), iterated to its end.
GetReleases(b) == Bundle20Tags(b, 1)

\* get_snapshot(): the heads, then the releases under their tag names.
GetSnapshot(b) ==
    [b EXCEPT
        !.step = "snapshot",
        !.snapshot =
            {[name |-> name, target |-> b.heads[name],
              target_type |-> "revision"] :
                name \in DOMAIN b.heads \ DOMAIN b.releases}
            \cup {[name |-> name, target |-> b.releases[name],
                   target_type |-> "release"] : name \in DOMAIN b.releases}]

\* The state of a specification of one unit: the HgLoaderFromDisk visits
\* are not part of it.
HgUnused ==
    /\ repo = Unused /\ nrevs = Unused /\ version = Unused
    /\ storage = Unused /\ partial = Unused /\ loader = Unused
    /\ history = Unused

InitBundle20 ==
    /\ HgUnused
    /\ \E cl \in Changelogs, reduce_effort \in SUBSET (1..MaxChangesets),
          tags \in TagBlobs :
        \E head \in Bundle20Heads(cl) :
            bundle20 = Bundle20Prepared(cl, reduce_effort, tags, head)
    /\ converted = Unused /\ files = Unused
    /\ cloning = Unused /\ reader = Unused

\* store_data: the revisions.
Bundle20GetRevisions ==
    /\ bundle20.step = "prepared"
    /\ bundle20' = GetRevisions(bundle20)
    /\ UNCHANGED <<hgvars, converted, files, cloning, reader>>

\* store_data: the releases.
Bundle20GetReleases ==
    /\ bundle20.step = "revisions"
    /\ bundle20' = GetReleases(bundle20)
    /\ UNCHANGED <<hgvars, converted, files, cloning, reader>>

\* store_data: the snapshot.
Bundle20GetSnapshot ==
    /\ bundle20.step = "releases"
    /\ bundle20' = GetSnapshot(bundle20)
    /\ UNCHANGED <<hgvars, converted, files, cloning, reader>>

NextBundle20 ==
    \/ Bundle20GetRevisions
    \/ Bundle20GetReleases
    \/ Bundle20GetSnapshot

SpecBundle20 == InitBundle20 /\ [][NextBundle20]_vars

\* ========================================================== converters.py
\* blob_to_content_dict, the same function in converters.py and in
\* slow_loader.py.

\* Length of the longest blob.
MaxBlobLen == 3
\* Largest size limit.
MaxSizeLimit == 3

\* The blobs: byte strings.
Blobs == UNION {[1..k -> {0, 1}] : k \in 0..MaxBlobLen}

\* max_size: None (the empty sequence) or an integer.
None == <<>>
MaxSizes == {None} \cup {<<n>> : n \in 0..MaxSizeLimit}

\* hashutil.DEFAULT_ALGORITHMS
DEFAULT_ALGORITHMS == {"sha1", "sha256", "sha1_git", "blake2s256"}

\* hashutil.hash_data(data, algorithms): a hash is a function of the
\* algorithm and the data.
HashData(data, algorithms) == [a \in algorithms |-> <<a, data>>]

\* dict.update
DictUpdate(d, e) ==
    [k \in DOMAIN d \cup DOMAIN e |-> IF k \in DOMAIN e THEN e[k] ELSE d[k]]

\* Variant: the limit itself is too large.
TooLarge_Inclusive(size, max_size) ==
    max_size # None /\ max_size[1] # 0 /\ size >= max_size[1]

\* max_size and (size > max_size): None and 0 are false.
TooLarge(size, max_size) ==
    max_size # None /\ max_size[1] # 0 /\ size > max_size[1]

\* blob_to_content_dict(data, existing_hashes, max_size, logger): the
\* content, and the number of messages logged.
BlobToContentDict(data, existing_hashes, max_size, logger) ==
    LET base == DictUpdate(
                    DictUpdate([k \in {"length"} |-> Len(data)],
                               existing_hashes),
                    HashData(data, DEFAULT_ALGORITHMS
                                       \ DOMAIN existing_hashes))
    IN  IF TooLarge(Len(data), max_size)
        THEN [content |->
                 [k \in DOMAIN base \cup {"status", "reason"} |->
                     IF k = "status" THEN "absent"
                     ELSE IF k = "reason" THEN "Content too large"
                     ELSE base[k]],
              logged |-> IF logger THEN 1 ELSE 0]
        ELSE [content |->
                 [k \in DOMAIN base \cup {"data", "status"} |->
                     IF k = "data" THEN data
                     ELSE IF k = "status" THEN "visible"
                     ELSE base[k]],
              logged |-> 0]

InitConverters ==
    /\ HgUnused
    /\ \E data \in Blobs, max_size \in MaxSizes,
          hash_types \in SUBSET DEFAULT_ALGORITHMS, logger \in BOOLEAN,
          module \in {"converters", "slow_loader"} :
        converted = [step |-> "called", module |-> module, data |-> data,
                     existing_hashes |-> HashData(data, hash_types),
                     max_size |-> max_size, logger |-> logger]
    /\ bundle20 = Unused /\ files = Unused
    /\ cloning = Unused /\ reader = Unused

\* The call returns.
Returned(module) ==
    /\ converted.step = "called"
    /\ converted.module = module
    /\ converted' =
        [step |-> "returned", module |-> converted.module,
         data |-> converted.data,
         existing_hashes |-> converted.existing_hashes,
         max_size |-> converted.max_size, logger |-> converted.logger,
         result |-> BlobToContentDict(converted.data,
                        converted.existing_hashes, converted.max_size,
                        converted.logger)]
    /\ UNCHANGED <<hgvars, bundle20, files, cloning, reader>>

\* converters.blob_to_content_dict
ConvertersBlobToContentDict == Returned("converters")

\* slow_loader.blob_to_content_dict
SlowLoaderBlobToContentDict == Returned("slow_loader")

NextConverters ==
    \/ ConvertersBlobToContentDict
    \/ SlowLoaderBlobToContentDict

SpecConverters == InitConverters /\ [][NextConverters]_vars

\* ================================================================ cleanup
\* The directories and files the four loaders create in prepare() or
\* fetch_data() and remove in cleanup(), over the visits of one instance.

\* Number of visits of one loader instance.
MaxVisits == 3

\* A path: what it is, the visit that created it, and the directory it lies
\* in ("none": a directory of its own).
Path(kind, visit, parent) == [kind |-> kind, visit |-> visit, parent |-> parent]

\* An attribute that is None.
NoPath == Path("none", 0, "none")

\* The local repository directory the caller supplies.
CallerDirectory == Path("caller", 0, "none")

LoaderClasses ==
    {"HgLoaderFromDisk", "HgArchiveLoaderFromDisk",
     "HgBundle20Loader", "HgArchiveBundle20Loader"}

\* os.path.exists
Exists(f, path) == path \in f.exists

\* rmtree(directory): the directory and what lies in it.
Rmtree(exists, directory) ==
    {p \in exists :
        p # directory
        /\ ~(p.parent = directory.kind
             /\ (p.visit = directory.visit \/ directory.kind = "caller"))}

\* os.unlink(path)
Unlink(exists, path) == exists \ {path}

\* The loader instance after __init__, about to load: directory is the
\* local repository of the caller, or None.
FilesInit(class, directory) ==
    [class |-> class,
     step |-> "start",
     visit |-> 1,
     directory |-> directory,
     repo_directory |-> NoPath,
     working_directory |-> NoPath,
     bundle_path |-> NoPath,
     temp_dir |-> NoPath,
     exists |-> {CallerDirectory},
     created |-> {},
     exc |-> ""]

\* A visit that ends here, with or without an exception: load() goes on to
\* cleanup() in its finally clause.
Exited(f, exc) == [f EXCEPT !.step = "exited", !.exc = exc]

InitCleanup ==
    /\ HgUnused
    /\ \E class \in LoaderClasses, local \in BOOLEAN :
        /\ class \in {"HgArchiveLoaderFromDisk", "HgArchiveBundle20Loader"}
            => ~local
        /\ files = FilesInit(class,
                        IF local THEN CallerDirectory ELSE NoPath)
    /\ bundle20 = Unused /\ converted = Unused
    /\ cloning = Unused /\ reader = Unused

\* HgLoaderFromDisk.prepare: it reads the storage only.
HgLoaderFromDiskPrepare ==
    /\ files.class = "HgLoaderFromDisk"
    /\ files.step = "start"
    /\ files' = [files EXCEPT !.step = "prepared"]
    /\ UNCHANGED <<hgvars, bundle20, converted, cloning, reader>>

\* HgArchiveLoaderFromDisk.prepare: tmp_extract makes the directory and
\* extracts the archive into it; the extraction may fail; self.temp_dir is
\* no attribute the class sets, so reading it raises AttributeError unless
\* a base class outside this repository provides it.
HgArchiveLoaderFromDiskPrepare(outcome) ==
    /\ files.class = "HgArchiveLoaderFromDisk"
    /\ files.step = "start"
    /\ LET tmpdir == Path("extract", files.visit, "none")
           made == [files EXCEPT !.exists = @ \cup {tmpdir},
                                 !.created = @ \cup {tmpdir}]
       IN  files' =
            IF outcome = "extraction error"
            THEN Exited(made, "PatoolError")
            ELSE IF outcome = "AttributeError"
            THEN Exited([made EXCEPT !.temp_dir = tmpdir], "AttributeError")
            ELSE [made EXCEPT !.temp_dir = tmpdir,
                              !.directory =
                                  Path("repo", files.visit, "extract"),
                              !.step = "prepared"]
    /\ UNCHANGED <<hgvars, bundle20, converted, cloning, reader>>

\* HgLoaderFromDisk.fetch_data, then store_data: without a local directory
\* the repository is cloned into a new temporary directory.
HgLoaderFromDiskFetchData(outcome) ==
    /\ files.class \in {"HgLoaderFromDisk", "HgArchiveLoaderFromDisk"}
    /\ files.step = "prepared"
    /\ outcome \in {"CloneTimeout", "CloneFailure"} => files.directory = NoPath
    /\ LET clone == Path("clone", files.visit, "none")
           fetched ==
               IF files.directory = NoPath
               THEN [files EXCEPT !.repo_directory = clone,
                                  !.exists = @ \cup {clone},
                                  !.created = @ \cup {clone}]
               ELSE [files EXCEPT !.repo_directory = files.directory]
       IN  files' = Exited(fetched, IF outcome = "success" THEN "" ELSE outcome)
    /\ UNCHANGED <<hgvars, bundle20, converted, cloning, reader>>

\* HgLoaderFromDisk.cleanup, which HgArchiveLoaderFromDisk inherits.
HgLoaderFromDiskCleanup ==
    /\ files.class \in {"HgLoaderFromDisk", "HgArchiveLoaderFromDisk"}
    /\ files.step = "exited"
    /\ LET was_remote == files.directory = NoPath
       IN  files' =
            [files EXCEPT
                !.step = "cleaned",
                !.exists =
                    IF was_remote /\ files.repo_directory # NoPath
                       /\ Exists(files, files.repo_directory)
                    THEN Rmtree(@, files.repo_directory)
                    ELSE @]
    /\ UNCHANGED <<hgvars, bundle20, converted, cloning, reader>>

\* HgBundle20Loader.prepare(directory) from the bundle path on: the bundle
\* is written into hgdir.
Bundle20Bundle(f, hgdir, outcome, written) ==
    LET bundle == Path("bundle", f.visit, hgdir.kind)
        named == [f EXCEPT !.bundle_path = bundle]
        bundled == [named EXCEPT !.exists = @ \cup {bundle},
                                 !.created = @ \cup {bundle}]
    IN  IF outcome = "bundling error"
        THEN Exited(IF written THEN bundled ELSE named, "CommandError")
        ELSE [bundled EXCEPT !.step = "prepared"]

\* HgBundle20Loader.prepare(directory): the attributes of the visit before
\* stay until they are assigned.
Bundle20Prepare(f, directory, outcome, written) ==
    IF directory = NoPath
    THEN LET clone == Path("clone", f.visit, "none")
             made == [f EXCEPT !.working_directory = clone,
                               !.exists = @ \cup {clone},
                               !.created = @ \cup {clone}]
         IN  IF outcome = "clone failure"
             THEN Exited(made, "CommandError")
             ELSE Bundle20Bundle(made, clone, outcome, written)
    ELSE Bundle20Bundle([f EXCEPT !.working_directory = NoPath],
                        directory, outcome, written)

\* HgBundle20Loader.prepare, with the directory of the caller or None.
HgBundle20LoaderPrepare(local, outcome, written) ==
    /\ files.class = "HgBundle20Loader"
    /\ files.step = "start"
    /\ outcome = "clone failure" => ~local
    /\ files' = Bundle20Prepare(
                    [files EXCEPT !.directory =
                        IF local THEN CallerDirectory ELSE NoPath],
                    IF local THEN CallerDirectory ELSE NoPath,
                    outcome, written)
    /\ UNCHANGED <<hgvars, bundle20, converted, cloning, reader>>

\* HgArchiveBundle20Loader.prepare: self.temp_dir is assigned when
\* tmp_extract returns, then the repository in it is the local directory.
HgArchiveBundle20LoaderPrepare(outcome, written) ==
    /\ files.class = "HgArchiveBundle20Loader"
    /\ files.step = "start"
    /\ outcome # "clone failure"
    /\ LET tmpdir == Path("extract", files.visit, "none")
           made == [files EXCEPT !.exists = @ \cup {tmpdir},
                                 !.created = @ \cup {tmpdir}]
       IN  files' =
            IF outcome = "extraction error"
            THEN Exited(made, "PatoolError")
            ELSE Bundle20Prepare(
                    [made EXCEPT !.temp_dir = tmpdir,
                                 !.directory = tmpdir],
                    tmpdir, outcome, written)
    /\ UNCHANGED <<hgvars, bundle20, converted, cloning, reader>>

\* fetch_data and store_data of the bundle loaders: the bundle is parsed.
HgBundle20LoaderStoreData(outcome) ==
    /\ files.class \in {"HgBundle20Loader", "HgArchiveBundle20Loader"}
    /\ files.step = "prepared"
    /\ files' = Exited(files, IF outcome = "success" THEN "" ELSE outcome)
    /\ UNCHANGED <<hgvars, bundle20, converted, cloning, reader>>

\* HgBundle20Loader.cleanup
Bundle20Cleanup(f) ==
    LET unlinked ==
            IF f.bundle_path # NoPath /\ Exists(f, f.bundle_path)
            THEN [f EXCEPT !.exists = Unlink(@, f.bundle_path)]
            ELSE f
    IN  IF unlinked.working_directory # NoPath
           /\ Exists(unlinked, unlinked.working_directory)
        THEN [unlinked EXCEPT
                !.exists = Rmtree(@, unlinked.working_directory)]
        ELSE unlinked

HgBundle20LoaderCleanup ==
    /\ files.class = "HgBundle20Loader"
    /\ files.step = "exited"
    /\ files' = [Bundle20Cleanup(files) EXCEPT !.step = "cleaned"]
    /\ UNCHANGED <<hgvars, bundle20, converted, cloning, reader>>

\* HgArchiveBundle20Loader.cleanup: the extraction directory, then the
\* cleanup of HgBundle20Loader.
HgArchiveBundle20LoaderCleanup ==
    /\ files.class = "HgArchiveBundle20Loader"
    /\ files.step = "exited"
    /\ LET removed ==
            IF files.temp_dir # NoPath /\ Exists(files, files.temp_dir)
            THEN [files EXCEPT !.exists = Rmtree(@, files.temp_dir)]
            ELSE files
       IN  files' = [Bundle20Cleanup(removed) EXCEPT !.step = "cleaned"]
    /\ UNCHANGED <<hgvars, bundle20, converted, cloning, reader>>

\* The same instance loads again: a new visit.
LoadAgain ==
    /\ files.step = "cleaned"
    /\ files.visit < MaxVisits
    /\ files' = [files EXCEPT !.step = "start", !.visit = @ + 1,
                              !.created = {}, !.exc = "",
                              !.directory =
                                  IF files.class = "HgArchiveLoaderFromDisk"
                                  THEN NoPath ELSE @]
    /\ UNCHANGED <<hgvars, bundle20, converted, cloning, reader>>

NextCleanup ==
    \/ HgLoaderFromDiskPrepare
    \/ \E outcome \in {"success", "extraction error", "AttributeError"} :
        HgArchiveLoaderFromDiskPrepare(outcome)
    \/ \E outcome \in {"success", "CloneTimeout", "CloneFailure",
                       "parsing error"} :
        HgLoaderFromDiskFetchData(outcome)
    \/ HgLoaderFromDiskCleanup
    \/ \E local, written \in BOOLEAN,
          outcome \in {"success", "clone failure", "bundling error"} :
        HgBundle20LoaderPrepare(local, outcome, written)
    \/ \E written \in BOOLEAN,
          outcome \in {"success", "extraction error", "bundling error"} :
        HgArchiveBundle20LoaderPrepare(outcome, written)
    \/ \E outcome \in {"success", "parsing error"} :
        HgBundle20LoaderStoreData(outcome)
    \/ HgBundle20LoaderCleanup
    \/ HgArchiveBundle20LoaderCleanup
    \/ LoadAgain

SpecCleanup == InitCleanup /\ [][NextCleanup]_vars

\* =========================================================== hgutil.clone
\* clone(src, dest, timeout) and the subprocess that runs _clone_task.

\* for _ in range(10): the polls of the window after terminate().
POLLS == 10

\* Longest timeout, in units of time.
MaxTimeout == 2

\* clone(src, dest, timeout) has created the error queue and the process
\* object.
CloneInit(timeout) ==
    [pc |-> "start",
     timeout |-> timeout,
     elapsed |-> 0,
     process |-> "unstarted",
     errors |-> 0,
     alive |-> FALSE,
     terminated |-> FALSE,
     polls |-> 0,
     killed |-> FALSE,
     sigkill |-> FALSE,
     result |-> ""]

InitClone ==
    /\ HgUnused
    /\ \E timeout \in 1..MaxTimeout : cloning = CloneInit(timeout)
    /\ bundle20 = Unused /\ converted = Unused
    /\ files = Unused /\ reader = Unused

\* process.is_alive()
IsAlive(c) == c.process = "running"

\* process.start()
CloneStart ==
    /\ cloning.pc = "start"
    /\ cloning' = [cloning EXCEPT !.pc = "join", !.process = "running"]
    /\ UNCHANGED <<hgvars, bundle20, converted, files, reader>>

\* _clone_task: hg.clone returns, the subprocess exits with status 0.
CloneTaskReturns ==
    /\ cloning.process = "running"
    /\ cloning' = [cloning EXCEPT !.process = "succeeded"]
    /\ UNCHANGED <<hgvars, bundle20, converted, files, reader>>

\* _clone_task: hg.clone raises an Exception; its traceback is put in the
\* queue and the subprocess exits with the exception.
CloneTaskRaises ==
    /\ cloning.process = "running"
    /\ cloning' = [cloning EXCEPT !.process = "failed", !.errors = @ + 1]
    /\ UNCHANGED <<hgvars, bundle20, converted, files, reader>>

\* The subprocess ends without reaching the except clause: a signal (the
\* SIGTERM of terminate() among them) or an exception that is no Exception.
CloneTaskDies ==
    /\ cloning.process = "running"
    /\ cloning' = [cloning EXCEPT !.process = "died"]
    /\ UNCHANGED <<hgvars, bundle20, converted, files, reader>>

\* process.join(timeout) waits while the subprocess runs.
CloneWait ==
    /\ cloning.pc = "join"
    /\ IsAlive(cloning)
    /\ cloning.elapsed < cloning.timeout
    /\ cloning' = [cloning EXCEPT !.elapsed = @ + 1]
    /\ UNCHANGED <<hgvars, bundle20, converted, files, reader>>

\* process.join(timeout) returns: the subprocess has ended, or the timeout
\* has expired.
CloneJoin ==
    /\ cloning.pc = "join"
    /\ ~IsAlive(cloning) \/ cloning.elapsed = cloning.timeout
    /\ cloning' = [cloning EXCEPT !.pc = "is_alive"]
    /\ UNCHANGED <<hgvars, bundle20, converted, files, reader>>

\* if process.is_alive(): process.terminate()
CloneIsAlive ==
    /\ cloning.pc = "is_alive"
    /\ cloning' =
        IF IsAlive(cloning)
        THEN [cloning EXCEPT !.pc = "poll", !.alive = TRUE,
                             !.terminated = TRUE]
        ELSE [cloning EXCEPT !.pc = "errors"]
    /\ UNCHANGED <<hgvars, bundle20, converted, files, reader>>

\* One turn of the loop: time.sleep(0.1), then the test; after the last
\* turn without a break the else clause sends SIGKILL; CloneTimeout.
ClonePoll ==
    /\ cloning.pc = "poll"
    /\ cloning' =
        IF ~IsAlive(cloning)
        THEN [cloning EXCEPT !.polls = @ + 1, !.pc = "done",
                             !.result = "CloneTimeout"]
        ELSE IF cloning.polls + 1 < POLLS
        THEN [cloning EXCEPT !.polls = @ + 1]
        ELSE [cloning EXCEPT !.polls = @ + 1, !.pc = "done",
                             !.killed = TRUE, !.sigkill = TRUE,
                             !.process = "died",
                             !.result = "CloneTimeout"]
    /\ UNCHANGED <<hgvars, bundle20, converted, files, reader>>

\* if not errors.empty(): raise CloneFailure; else clone returns.
CloneErrors ==
    /\ cloning.pc = "errors"
    /\ cloning' =
        IF cloning.errors # 0
        THEN [cloning EXCEPT !.pc = "done", !.errors = @ - 1,
                             !.result = "CloneFailure"]
        ELSE [cloning EXCEPT !.pc = "done", !.result = "return"]
    /\ UNCHANGED <<hgvars, bundle20, converted, files, reader>>

NextClone ==
    \/ CloneStart
    \/ CloneTaskReturns
    \/ CloneTaskRaises
    \/ CloneTaskDies
    \/ CloneWait
    \/ CloneJoin
    \/ CloneIsAlive
    \/ ClonePoll
    \/ CloneErrors

SpecClone == InitClone /\ [][NextClone]_vars

\* ====================================================== chunked_reader.py
\* ChunkedFileReader of chunked_reader.py and of bundle_loader.py, over a
\* file of chunks [4 bytes: length, length bytes: data] and the bytes that
\* follow the last chunk.

\* Number of chunks of a file.
MaxChunks == 3
\* Length of the longest chunk.
MaxChunkSize == 6
\* Longest read.
MaxRead == 7
\* Number of seeks on one reader.
MaxSeeks == 1

\* struct.calcsize('>I')
SIZE_BYTES == 4

\* struct.pack('>I', n)
Pack(n) ==
    <<(n \div 16777216) % 256, (n \div 65536) % 256, (n \div 256) % 256,
      n % 256>>

\* struct.unpack('>I', raw)[0]
Unpack(raw) ==
    raw[1] * 16777216 + raw[2] * 65536 + raw[3] * 256 + raw[4]

RECURSIVE ChunkSum(_, _)
\* The length of the first k chunks together.
ChunkSum(chunks, k) ==
    IF k = 0 THEN 0 ELSE chunks[k] + ChunkSum(chunks, k - 1)

\* The payload of the chunks: byte i of the stream has the value i.
ChunkPayload(chunks) == [i \in 1..ChunkSum(chunks, Len(chunks)) |-> i]

RECURSIVE ChunkedFile(_, _, _)
\* The file of the chunks from chunk k on, then trailer bytes of zero: the
\* empty chunk that ends the part, and the end of the bundle.
ChunkedFile(chunks, k, trailer) ==
    IF k > Len(chunks) THEN [i \in 1..trailer |-> 0]
    ELSE Pack(chunks[k])
         \o [i \in 1..chunks[k] |-> ChunkSum(chunks, k - 1) + i]
         \o ChunkedFile(chunks, k + 1, trailer)

\* The chunk lengths of the files: any lengths from 1 on.
ChunkLengths == UNION {[1..k -> 1..MaxChunkSize] : k \in 1..MaxChunks}

\* file.read(n) at position pos: the bytes there are, up to n.
FileRead(file, pos, n) ==
    SubSeq(file, pos + 1, IF pos + n > Len(file) THEN Len(file) ELSE pos + n)

\* The reader fails with an exception.
ReaderRaise(r, exc) == [r EXCEPT !.step = "failed", !.exc = exc]

\* The test of _chunk_size on a chunk after the first one.
InconsistentChunk(r, size, tell) ==
    size # r.bytes_per_chunk /\ tell < r.size - r.bytes_per_chunk

RECURSIVE ChunkedReadIterator(_, _)
\* chunked_reader.ChunkedFileReader.read_iterator(bytes_to_read), with
\* _chunk_size() for every chunk that is exhausted.
ChunkedReadIterator(r, bytes_to_read) ==
    IF bytes_to_read > r.chunk_bytes_left
    THEN LET data == FileRead(r.file, r.pos, r.chunk_bytes_left)
             raw == FileRead(r.file, r.pos + Len(data), SIZE_BYTES)
             tell == r.pos + Len(data) + Len(raw)
             read == [r EXCEPT !.pos = tell,
                               !.returned = @ \o data]
         IN  IF Len(raw) < SIZE_BYTES THEN ReaderRaise(read, "struct.error")
             ELSE IF InconsistentChunk(r, Unpack(raw), tell)
             THEN ReaderRaise(read, "inconsistent chunk")
             ELSE ChunkedReadIterator(
                    [read EXCEPT !.chunk_bytes_left = Unpack(raw)],
                    bytes_to_read - r.chunk_bytes_left)
    ELSE LET data == FileRead(r.file, r.pos, bytes_to_read)
         IN  [r EXCEPT !.chunk_bytes_left = @ - bytes_to_read,
                       !.pos = @ + Len(data),
                       !.returned = @ \o data]

RECURSIVE BundleReadIterator(_, _, _)
\* bundle_loader.ChunkedFileReader.read_iterator(bytes_to_read), with
\* _buffer_chunk() when the FIFO holds too little.
BundleReadIterator(r, bytes_to_read, has_data) ==
    IF bytes_to_read > 0 /\ has_data
    THEN IF bytes_to_read > Len(r.fifo)
         THEN LET raw == FileRead(r.file, r.pos, SIZE_BYTES)
              IN  IF Len(raw) < SIZE_BYTES
                  THEN ReaderRaise(r, "struct.error")
                  ELSE LET data == FileRead(r.file, r.pos + SIZE_BYTES,
                                            Unpack(raw))
                           bytes_read ==
                               IF bytes_to_read < Len(r.fifo) + Len(data)
                               THEN bytes_to_read
                               ELSE Len(r.fifo) + Len(data)
                       IN  BundleReadIterator(
                            [r EXCEPT
                                !.pos = @ + SIZE_BYTES + Len(data),
                                !.returned =
                                    @ \o SubSeq(r.fifo \o data, 1, bytes_read),
                                !.fifo = SubSeq(r.fifo \o data,
                                                bytes_read + 1,
                                                Len(r.fifo) + Len(data))],
                            bytes_to_read - bytes_read,
                            Len(data) # 0)
         ELSE [r EXCEPT !.returned = @ \o SubSeq(r.fifo, 1, bytes_to_read),
                        !.fifo = SubSeq(r.fifo, bytes_to_read + 1,
                                        Len(r.fifo))]
    ELSE r

\* ChunkedFileReader(file) of either module: chunked_reader reads the
\* length of the first chunk and the size of the file.
ReaderInit(module, chunks, trailer) ==
    [step |-> "open",
     module |-> module,
     chunks |-> chunks,
     trailer |-> trailer,
     file |-> ChunkedFile(chunks, 1, trailer),
     payload |-> ChunkPayload(chunks),
     size |-> Len(ChunkedFile(chunks, 1, trailer)),
     pos |-> IF module = "chunked_reader" THEN SIZE_BYTES ELSE 0,
     bytes_per_chunk |->
        IF module = "chunked_reader" THEN chunks[1] ELSE 0,
     chunk_bytes_left |->
        IF module = "chunked_reader" THEN chunks[1] ELSE 0,
     fifo |-> <<>>,
     asked |-> 0,
     bytes_to_read |-> 0,
     returned |-> <<>>,
     out |-> <<>>,
     exc |-> "",
     mark |-> [pos |-> 0, left |-> 0, asked |-> 0],
     limit |-> ChunkSum(chunks, Len(chunks)),
     seeks |-> 0,
     left_then |-> 0]

InitReader ==
    /\ HgUnused
    /\ \E module \in {"chunked_reader", "bundle_loader"},
          chunks \in ChunkLengths,
          trailer \in {0, SIZE_BYTES, 2 * SIZE_BYTES} :
        reader = ReaderInit(module, chunks, trailer)
    /\ bundle20 = Unused /\ converted = Unused
    /\ files = Unused /\ cloning = Unused

\* The reader after read(bytes_to_read) returned r.returned, or raised.
ReaderAfter(r, bytes_to_read) ==
    [r EXCEPT !.step = IF r.exc = "" THEN "read" ELSE "failed",
              !.asked = @ + bytes_to_read,
              !.bytes_to_read = bytes_to_read,
              !.out = @ \o r.returned]

\* chunked_reader: read(n), the pieces of read_iterator(n) joined.
ChunkedReaderRead(n) ==
    /\ reader.module = "chunked_reader"
    /\ reader.step \in {"open", "read", "sought"}
    /\ reader.asked + n <= reader.limit
    /\ reader' = ReaderAfter(
                    ChunkedReadIterator([reader EXCEPT !.returned = <<>>], n),
                    n)
    /\ UNCHANGED <<hgvars, bundle20, converted, files, cloning>>

\* bundle_loader: read(n), the pieces of read_iterator(n) joined.
BundleLoaderRead(n) ==
    /\ reader.module = "bundle_loader"
    /\ reader.step \in {"open", "read"}
    /\ reader.asked + n <= Len(reader.payload)
    /\ reader' = ReaderAfter(
                    BundleReadIterator([reader EXCEPT !.returned = <<>>],
                                       n, TRUE),
                    n)
    /\ UNCHANGED <<hgvars, bundle20, converted, files, cloning>>

\* Variant: the length prefixes are not counted.
SeekChunkBytesLeft_NoPrefix(r, seek_pos) ==
    r.bytes_per_chunk - ((seek_pos - SIZE_BYTES) % r.bytes_per_chunk)

\* seek(seek_pos): the count of bytes left in the chunk, computed from the
\* position as if every chunk had the length of the first one.
SeekChunkBytesLeft(r, seek_pos) ==
    r.bytes_per_chunk
    - ((seek_pos - SIZE_BYTES) % (r.bytes_per_chunk + SIZE_BYTES))

\* chunked_reader: tell(), forwarded to the file; the caller keeps the
\* position (the start of a group).
ChunkedReaderTell ==
    /\ reader.module = "chunked_reader"
    /\ reader.step \in {"open", "read"}
    /\ reader.mark.pos = 0
    /\ reader' = [reader EXCEPT
                    !.mark = [pos |-> reader.pos,
                              left |-> reader.chunk_bytes_left,
                              asked |-> reader.asked]]
    /\ UNCHANGED <<hgvars, bundle20, converted, files, cloning>>

\* chunked_reader: seek(p) to the position kept; the reads that follow are
\* those made from that position the first time.
ChunkedReaderSeek ==
    /\ reader.module = "chunked_reader"
    /\ reader.step \in {"open", "read"}
    /\ reader.seeks < MaxSeeks
    /\ reader.mark.pos # 0
    /\ reader' = [reader EXCEPT
                    !.step = "sought",
                    !.seeks = @ + 1,
                    !.pos = reader.mark.pos,
                    !.chunk_bytes_left =
                        SeekChunkBytesLeft(reader, reader.mark.pos),
                    !.left_then = reader.mark.left,
                    !.limit = reader.asked,
                    !.asked = reader.mark.asked,
                    !.out = SubSeq(@, 1, reader.mark.asked),
                    !.returned = <<>>,
                    !.bytes_to_read = 0]
    /\ UNCHANGED <<hgvars, bundle20, converted, files, cloning>>

NextReader ==
    \/ \E n \in 0..MaxRead : ChunkedReaderRead(n)
    \/ ChunkedReaderTell
    \/ ChunkedReaderSeek
    \/ \E n \in 0..MaxRead : BundleLoaderRead(n)

SpecReader == InitReader /\ [][NextReader]_vars

\* ------------------------------------------------------------ properties
\* The classes of archive objects a load stores.
Classes == {"content", "directory", "revision", "release", "snapshot"}

\* The objects of a class that the load recorded in rec added to storage.
Stored(rec, class) == rec.after[class] \ rec.before[class]

\* The number of origin visits the load recorded in rec added.
NewVisits(rec) == Len(rec.after.visits) - Len(rec.before.visits)

\* The load recorded in rec ran to its end (no exception left store_data).
Completed(rec) == rec.exc = ""

\* Load i is a repeated load: the load before it ran to its end, and since
\* then the repository and EXTID_VERSION did not change and the storage is
\* the same, or its copy holding the latest visit with its snapshot, the
\* head ExtIDs and the head revisions.
Repeated(i) ==
    /\ i > 1
    /\ Completed(history.loads[i - 1])
    /\ \/ history.loads[i].env = {}
       \/ /\ history.loads[i].env = {"copy_revisions"}
          /\ SnapshotGetLatest(history.loads[i].before) # {}
    /\ history.loads[i].nrevs = history.loads[i - 1].nrevs
    /\ history.loads[i].version = history.loads[i - 1].version

\* C1: every load of a repository that follows a load of it, with no change
\* to the repository in between and against the same storage or a storage
\* holding only the head ExtIDs and head revisions, reports "uneventful",
\* stores no new content, directory, revision, release or snapshot, and
\* records exactly one more origin visit.
C1_ReloadUneventful ==
    \A i \in DOMAIN history.loads :
        Repeated(i) =>
            /\ history.loads[i].status = "uneventful"
            /\ \A class \in Classes : Stored(history.loads[i], class) = {}
            /\ NewVisits(history.loads[i]) = 1

\* The changesets of the repository of a load that are heads recorded by
\* the latest snapshot and still exist.
ExistingHeads(rec) ==
    {r \in 1..rec.nrevs : NodeOf(repo, r) \in rec.latest_heads}

\* The changesets that are neither such a head nor an ancestor of one.
NotLoadedYet(rec) ==
    {r \in 1..rec.nrevs :
        \A h \in ExistingHeads(rec) : r \notin Ancestors(repo, h)}

\* The repository has a corrupted changeset.
Corrupted(R) ==
    \E r \in 1..MaxRevs : \E p \in DOMAIN R.manifest[r] : R.manifest[r][p][1] < 0

\* The tree of a changeset, built from its manifest alone.
ManifestTree(R, r) ==
    [p \in DOMAIN Manifest(R, r) |->
        [sha1_git |-> ContentId(FileData(Manifest(R, r)[p][1])),
         perms |-> FLAG_PERMS(Manifest(R, r)[p][2])]]

\* The ids of the directories of the tree of a changeset.
ManifestDirectories(R, r) ==
    {DirectoryId(ManifestTree(R, r), d) : d \in TreeDirs(ManifestTree(R, r))}

\* The revisions a load added for changeset r.
RevisionsOf(rec, r) ==
    {e[2] : e \in {x \in Range(rec.log) :
                     /\ x[1] = "revision"
                     /\ x[2].message = <<"description", NodeOf(repo, r)>>}}

\* The ExtIDs a load wrote.
ExtidsOf(rec) == {e[2] : e \in {x \in Range(rec.log) : x[1] = "extid"}}

\* The snapshot a load added (a set: empty when it added none).
SnapshotOf(rec) == {e[2] : e \in {x \in Range(rec.log) : x[1] = "snapshot"}}

\* Load i loads R after load i - 1 loaded R', R with its tip stripped,
\* against the same storage.
Additive(i) ==
    /\ i > 1
    /\ Completed(history.loads[i - 1])
    /\ history.loads[i - 1].nrevs = MaxRevs - 1
    /\ history.loads[i].nrevs = MaxRevs
    /\ history.loads[i].env = {"restore"}

\* What C2 says of load i when it is such a load: it is eventful and stores
\* exactly the stripped revision, its content and its directories.
StoresStripped(rec) ==
    /\ rec.status = "eventful"
    /\ Stored(rec, "revision") = RevisionsOf(rec, MaxRevs)
    /\ Cardinality(Stored(rec, "revision")) = 1
    /\ Stored(rec, "content") = {ContentId(FileData(MaxRevs))}
    /\ Stored(rec, "directory") =
          ManifestDirectories(repo, MaxRevs) \ rec.before.directory

\* C2: get_hg_revs_to_load selects exactly the revisions that are neither a
\* recorded head still in the repository nor an ancestor of one (all of them
\* when there is none); hence, for a repository without corrupted changeset,
\* loading R' (R without its tip) and then R makes the second load eventful
\* and stores exactly the stripped revision with its content and directories.
C2_IncrementalSelection ==
    \A i \in DOMAIN history.loads :
        /\ history.loads[i].revs = NotLoadedYet(history.loads[i])
        /\ (Additive(i) /\ ~Corrupted(repo)) => StoresStripped(history.loads[i])

\* C3: when store_revision raises CorruptedRevision for a revision, that
\* revision and all its descendants are ignored, the visit status is set to
\* partial, the remaining revisions are still loaded, no ignored revision
\* is added to storage and no ExtID is written for one.
C3_CorruptedSkipped ==
    \A i \in DOMAIN history.loads :
        LET rec == history.loads[i]
        IN  rec.raised # {} =>
              /\ \A r \in rec.raised : \A d \in 1..rec.nrevs :
                    r \in Ancestors(repo, d) => d \in rec.ignored
              /\ rec.override = "partial"
              /\ Completed(rec) =>
                    /\ rec.visit_status = "partial"
                    /\ rec.loaded = rec.revs \ rec.ignored
              /\ \A r \in rec.ignored :
                    /\ r \notin rec.loaded
                    /\ RevisionsOf(rec, r) = {}
                    /\ \A e \in ExtidsOf(rec) : e.extid # NodeOf(repo, r)

\* A load met a corrupted revision that has a descendant, after it had
\* loaded another revision.
C3_Witness ==
    \E i \in DOMAIN history.loads :
        LET rec == history.loads[i]
        IN  /\ Completed(rec)
            /\ rec.loaded # {}
            /\ \E r \in rec.raised : \E d \in rec.ignored : d # r

\* The changeset a snapshot branch targets: the changeset of the revision,
\* or of the revision the release targets.
TargetNode(branch) ==
    IF branch.target_type = "release" THEN branch.target.target.message[2]
    ELSE branch.target.message[2]

\* C4: a load that skipped corrupted revisions and loaded at least one
\* revision completes with load status eventful and stores a snapshot none
\* of whose branches targets a skipped changeset or a descendant of one.
C4_SnapshotOmitsSkipped ==
    \A i \in DOMAIN history.loads :
        LET rec == history.loads[i]
        IN  (rec.raised # {} /\ rec.loaded # {}) =>
              /\ Completed(rec)
              /\ rec.status = "eventful"
              /\ SnapshotOf(rec) # {}
              /\ \A snp \in SnapshotOf(rec) : \A nm \in DOMAIN snp :
                    snp[nm].target_type # "alias" =>
                        RevOfNode(repo, rec.nrevs, TargetNode(snp[nm]))
                            \notin rec.ignored

\* The ExtIDs of the storage a load started from that have the type and the
\* version the loader reads.
CurrentExtids(rec) ==
    {e \in rec.before.extid :
        e.extid_type = "hg-nodeid" /\ e.extid_version = rec.version}

\* Load i is the first load after EXTID_VERSION changed, of a repository
\* that did not change since load i - 1 ran to its end on the same storage.
VersionChanged(i) ==
    /\ i > 1
    /\ Completed(history.loads[i - 1])
    /\ history.loads[i].env = {"patch"}
    /\ history.loads[i].nrevs = history.loads[i - 1].nrevs

\* C5: the recorded heads come only from ExtIDs of type hg-nodeid and of the
\* current EXTID_VERSION; so, for a repository without corrupted changeset,
\* the first load after the version changed is eventful and loads every
\* revision again, and the load that follows it is uneventful.
C5_ExtidVersion ==
    \A i \in DOMAIN history.loads :
        /\ history.loads[i].latest_heads
              \subseteq {e.extid : e \in CurrentExtids(history.loads[i])}
        /\ (VersionChanged(i) /\ ~Corrupted(repo)) =>
              /\ history.loads[i].status = "eventful"
              /\ history.loads[i].revs = 1..history.loads[i].nrevs
        /\ (i > 1 /\ VersionChanged(i - 1) /\ Repeated(i) /\ ~Corrupted(repo)) =>
              history.loads[i].status = "uneventful"

\* The revisions the branches of the latest snapshot target, in the storage
\* a load started from.
SnapshotTargets(rec) ==
    UNION {{snp[nm].target :
                nm \in {x \in DOMAIN snp : snp[x].target_type = "revision"}} :
           snp \in SnapshotGetLatest(rec.before)}

\* The heads whose ExtID is dangling: found for a branch target of the
\* latest snapshot, with a target revision that is not in storage.
DanglingHeads(rec) ==
    {e.extid : e \in {x \in CurrentExtids(rec) :
                        /\ x.target.object_id \in SnapshotTargets(rec)
                        /\ x.target.object_id \notin rec.before.revision}}

\* The repository was the same at every load up to load i.
SameRepository(i) ==
    \A j \in 1..i : history.loads[j].nrevs = history.loads[i].nrevs

ExtidsFor(rec, id) ==
    {e \in rec.after.extid :
        /\ e.extid_type = "hg-nodeid"
        /\ e.extid_version = rec.version
        /\ e.target = [object_type |-> "revision", object_id |-> id]}

\* C7: every revision a load stores has exactly one ExtID of type hg-nodeid
\* and of the current version, whose extid is the node id of its changeset
\* and whose target is the revision; an ExtID is written only after its
\* revision was added.
C7_OneExtidPerRevision ==
    \A i \in DOMAIN history.loads :
        LET rec == history.loads[i]
        IN  /\ \A r \in rec.loaded :
                  /\ Cardinality(RevisionsOf(rec, r)) = 1
                  /\ \A id \in RevisionsOf(rec, r) :
                        /\ id \in rec.after.revision
                        /\ Cardinality(ExtidsFor(rec, id)) = 1
                        /\ \A e \in ExtidsFor(rec, id) :
                              e.extid = NodeOf(repo, r)
            /\ \A k \in DOMAIN rec.log :
                  rec.log[k][1] = "extid" =>
                      \E j \in 1..(k - 1) :
                          rec.log[j] =
                              <<"revision", rec.log[k][2].target.object_id>>

\* A load stored several revisions again under a new EXTID_VERSION: each has
\* an ExtID of the old version and one of the new version.
C7_Witness ==
    \E i \in DOMAIN history.loads :
        /\ Completed(history.loads[i])
        /\ history.loads[i].version # EXTID_VERSION
        /\ Cardinality(history.loads[i].loaded) > 1
        /\ Stored(history.loads[i], "revision") = {}

\* The named branches of the repository of a load.
NamedBranches(rec) == {repo.branch[r] : r \in 1..rec.nrevs}

\* The heads of branch b: its changesets without a descendant on b.
HeadsOf(rec, b) ==
    {r \in 1..rec.nrevs :
        /\ repo.branch[r] = b
        /\ \A d \in 1..rec.nrevs :
              (d # r /\ r \in Ancestors(repo, d)) => repo.branch[d] # b}

\* The node ids of the open heads of branch b, and of those among them that
\* the load did not ignore as corrupted.
OpenHeadNodes(rec, b) ==
    {NodeOf(repo, r) : r \in {x \in HeadsOf(rec, b) : x \notin repo.closes}}

KeptOpenHeadNodes(rec, b) ==
    {NodeOf(repo, r) :
        r \in {x \in HeadsOf(rec, b) : x \notin repo.closes \cup rec.ignored}}

\* Branch nm of snapshot snp targets the revision the load maps node to.
TargetsNode(rec, snp, nm, node) ==
    /\ nm \in DOMAIN snp
    /\ snp[nm].target_type = "revision"
    /\ snp[nm].target \in rec.after.revision
    /\ \E e \in ExtidsFor(rec, snp[nm].target) : e.extid = node

HeadsListed(rec, snp, b, nodes) ==
    LET listed == {nm \in DOMAIN snp : nm.kind = "branch-heads" /\ nm.name = b}
        sorted == SortedSeq(nodes)
    IN  IF Cardinality(nodes) > 1
        THEN /\ {nm.idx : nm \in listed} = 0..(Len(sorted) - 1)
             /\ \A nm \in listed :
                   TargetsNode(rec, snp, nm, sorted[nm.idx + 1])
             /\ [kind |-> "branch-tip", name |-> b, idx |-> -1] \in DOMAIN snp
             /\ snp[[kind |-> "branch-heads", name |-> b, idx |-> 0]].target
                  = snp[[kind |-> "branch-tip", name |-> b, idx |-> -1]].target
        ELSE listed = {}

\* C9 as stated: branch-heads/<branch>/<i> exist exactly for the branches
\* with more than one open head and list all the open heads of the branch
\* by ascending node id, from index 0.
C9_AllOpenHeadsListed ==
    \A i \in DOMAIN history.loads :
        \A snp \in SnapshotOf(history.loads[i]) :
            \A b \in Branches :
                HeadsListed(history.loads[i], snp, b,
                            OpenHeadNodes(history.loads[i], b))

\* C9, amended: the same for the open heads that are not ignored as
\* corrupted: entries exist exactly for the branches with more than one
\* such head, list all of them by ascending node id from index 0, index 0
\* having the target of branch-tip/<branch>.
C9_BranchHeads ==
    \A i \in DOMAIN history.loads :
        \A snp \in SnapshotOf(history.loads[i]) :
            \A b \in Branches :
                HeadsListed(history.loads[i], snp, b,
                            KeptOpenHeadNodes(history.loads[i], b))

\* A snapshot lists two open heads of a branch.
C9_Witness ==
    \E i \in DOMAIN history.loads :
        \E snp \in SnapshotOf(history.loads[i]) :
            \E nm \in DOMAIN snp : nm.kind = "branch-heads" /\ nm.idx = 1

\* The changesets that carry the @ bookmark in the repository of a load.
AtBookmark(rec) ==
    {MovedBookmark(repo, rec.nrevs, bm[2]) :
        bm \in {x \in repo.bookmarks : x[1] = "@"}} \ {0}

\* The branch tips of a load: for every branch, the lowest node id among
\* its open heads that are not ignored.
BranchTips(rec) ==
    {Min(KeptOpenHeadNodes(rec, b)) :
        b \in {x \in NamedBranches(rec) : KeptOpenHeadNodes(rec, x) # {}}}

\* C10: HEAD is an alias to bookmarks/@ if the @ bookmark exists and lies on
\* a branch tip, otherwise to branch-tip/default if the default branch has
\* a tip, and otherwise the snapshot has no HEAD.
C10_HeadAlias ==
    \A i \in DOMAIN history.loads :
        \A snp \in SnapshotOf(history.loads[i]) :
            LET rec == history.loads[i]
                head == [kind |-> "HEAD", name |-> "", idx |-> -1]
                AliasTo(kind, name) ==
                    /\ head \in DOMAIN snp
                    /\ snp[head] =
                         [target_type |-> "alias",
                          target |-> [kind |-> kind, name |-> name, idx |-> -1]]
            IN  IF \E r \in AtBookmark(rec) : NodeOf(repo, r) \in BranchTips(rec)
                THEN AliasTo("bookmarks", "@")
                ELSE IF KeptOpenHeadNodes(rec, "default") # {}
                THEN AliasTo("branch-tip", "default")
                ELSE head \notin DOMAIN snp

\* The user-defined tags of the repository of a load: every tag but "tip".
UserTags(rec) == (DOMAIN Tags(repo, rec.nrevs)) \ {"tip"}

\* The tags/<name> branches of a snapshot.
TagBranches(snp) == {nm \in DOMAIN snp : nm.kind = "tags"}

ClassRank(class) ==
    CASE class = "content" -> 1
      [] class = "directory" -> 2
      [] class \in {"revision", "extid"} -> 3
      [] class = "release" -> 4
      [] OTHER -> 5

MayFollow(class) ==
    CASE class = "content" -> {"content", "directory", "release", "snapshot"}
      [] class = "directory" -> {"directory", "revision"}
      [] class = "revision" -> {"extid"}
      [] class = "extid" -> {"content", "directory", "release", "snapshot"}
      [] class = "release" -> {"release", "snapshot"}
      [] OTHER -> {}

C14_DirectoryIsManifest ==
    \A i \in DOMAIN history.loads :
        \A r \in history.loads[i].loaded :
            \A id \in RevisionsOf(history.loads[i], r) :
                id.directory = DirectoryId(ManifestTree(repo, r), <<>>)

\* C15: for every load of a sequence of loads on one loader instance, the
\* load status is eventful when the load stored new objects and uneventful
\* when it found no revision to load, and the visit status is partial only
\* when that load skipped a corrupted revision.
C15_StatusPerLoad ==
    \A i \in DOMAIN history.loads :
        LET rec == history.loads[i]
        IN  Completed(rec) =>
              /\ (\E class \in Classes : Stored(rec, class) # {}) =>
                    rec.status = "eventful"
              /\ rec.revs = {} => rec.status = "uneventful"
              /\ rec.visit_status = "partial" => rec.raised # {}

\* The revision of the changeset a bundle20 visit emitted, if any.
Bundle20Emitted(r) == {rev \in bundle20.revisions : rev.node = r}

\* The parents changeset r has in the bundle: p1 and p2 without NULLID.
Bundle20NonNullParents(r) ==
    SelectSeq(<<bundle20.changesets.p1[r], bundle20.changesets.p2[r]>>,
              LAMBDA p : p # NULLID)

\* C13: every revision a visit emits has as parents exactly the ids of the
\* changeset's p1 and p2 other than the null node, in that order; no
\* non-null parent is left out, a parent in reduce_effort included.
C13_ParentsExact ==
    bundle20.step \notin {"unused", "prepared"} =>
        \A rev \in bundle20.revisions :
            /\ Len(rev.parents) = Len(Bundle20NonNullParents(rev.node))
            /\ \A k \in 1..Len(rev.parents) :
                rev.parents[k].node = Bundle20NonNullParents(rev.node)[k]

\* C16: a .hgtags line whose first field is not 40 hexadecimal digits, or
\* whose node has no revision in the visit, is skipped with a warning: the
\* visit does not abort, the line gives no release and no branch, and the
\* other lines give theirs.
C16_BadTagLineSkipped ==
    bundle20.step \in {"releases", "snapshot", "failed"}
    /\ bundle20.exc # "KeyError" =>
        /\ bundle20.step # "failed"
        /\ \A i \in 1..Len(bundle20.tags) :
            LET line == bundle20.tags[i]
                good == TAG_PATTERN(line.node)
                        /\ line.node.node \in DOMAIN bundle20.node_2_rev
            IN  IF good
                THEN line.name \in DOMAIN bundle20.releases
                ELSE (\A j \in 1..Len(bundle20.tags) :
                        bundle20.tags[j].name = line.name
                            => ~(TAG_PATTERN(bundle20.tags[j].node)
                                 /\ bundle20.tags[j].node.node
                                        \in DOMAIN bundle20.node_2_rev))
                     => line.name \notin DOMAIN bundle20.releases
        /\ bundle20.warnings =
            Cardinality({i \in 1..Len(bundle20.tags) :
                ~(TAG_PATTERN(bundle20.tags[i].node)
                  /\ bundle20.tags[i].node.node
                        \in DOMAIN bundle20.node_2_rev)})


\* The content a call of blob_to_content_dict returned is the absent one:
\* status absent, reason "Content too large", no data.
ContentAbsent(content) ==
    /\ content["status"] = "absent"
    /\ "reason" \in DOMAIN content /\ content["reason"] = "Content too large"
    /\ "data" \notin DOMAIN content

\* It is the visible one: status visible, with the data.
ContentVisible(content, data) ==
    /\ content["status"] = "visible"
    /\ "data" \in DOMAIN content /\ content["data"] = data
    /\ "reason" \notin DOMAIN content

\* Its length and its hashes are there.
ContentIdentified(content, data) ==
    /\ "length" \in DOMAIN content /\ content["length"] = Len(data)
    /\ \A a \in DEFAULT_ALGORITHMS :
        a \in DOMAIN content /\ content[a] = <<a, data>>

C18_TemporariesRemoved ==
    /\ files.step = "cleaned" =>
        \A p \in files.created :
            p.kind \in {"clone", "bundle", "extract"} => ~Exists(files, p)
    /\ files.step # "unused" => Exists(files, CallerDirectory)


\* C19, the timeout: a subprocess alive after the timeout was sent the
\* terminate signal, polled at most POLLS times of a tenth of a second,
\* sent SIGKILL only after the last poll found it alive, and the call
\* raised CloneTimeout.
C19_Timeout ==
    /\ cloning.polls <= POLLS
    /\ cloning.sigkill => cloning.terminated /\ cloning.polls = POLLS
    /\ cloning.pc = "done" /\ cloning.alive =>
        /\ cloning.terminated
        /\ cloning.result = "CloneTimeout"
        /\ cloning.killed = cloning.sigkill
    /\ cloning.result = "CloneTimeout" => cloning.alive

\* C19: the timeout as above; a subprocess that failed within the timeout
\* makes clone raise CloneFailure; clone returns normally only when the
\* subprocess ended the clone with success within the timeout.
C19_CloneOutcome ==
    /\ C19_Timeout
    /\ cloning.pc = "done" /\ ~cloning.alive
       /\ cloning.process \in {"failed", "died"}
        => cloning.result = "CloneFailure"
    /\ cloning.result = "return" =>
        ~cloning.alive /\ cloning.process = "succeeded"


\* C20: for reads whose total stays within the payload, every read(n)
\* returns exactly n bytes, and all that was returned, in order, is the
\* payload of the chunks up to there, the length prefixes left out; reads
\* that end at a chunk boundary or span chunks included.
C20_ReadsArePayloadPrefix ==
    reader.step \in {"read", "failed"} =>
        /\ reader.exc = ""
        /\ Len(reader.returned) = reader.bytes_to_read
        /\ reader.out = SubSeq(reader.payload, 1, reader.asked)


\* C29: after a load in which store_directories raised CorruptedRevision,
\* the working tree of the loader is the tree of the changeset that
\* _last_hg_nodeid names (the empty tree for the null id).
C29_WorkingTreeRestored ==
    (\E i \in DOMAIN history.loads : history.loads[i].raised # {}) =>
        loader.last_root =
            ManifestTree(repo, RevOfNode(repo, MaxRevs, loader.last_hg_nodeid))

\* The branch named HEAD of a snapshot.
HeadBranch == [kind |-> "HEAD", name |-> "", idx |-> -1]

\* C30: whenever a stored snapshot has HEAD, HEAD is an alias to a branch of
\* the same snapshot, and that branch targets a revision.
C30_HeadNotDangling ==
    \A i \in DOMAIN history.loads :
        \A snp \in SnapshotOf(history.loads[i]) :
            HeadBranch \in DOMAIN snp =>
                /\ snp[HeadBranch].target_type = "alias"
                /\ snp[HeadBranch].target \in DOMAIN snp
                /\ snp[snp[HeadBranch].target].target_type = "revision"

\* A load stored a snapshot with HEAD, on the bookmark @ in one load and on
\* the tip of default in another.
C30_Witness ==
    /\ \E i \in DOMAIN history.loads :
        \E snp \in SnapshotOf(history.loads[i]) :
            /\ HeadBranch \in DOMAIN snp
            /\ snp[HeadBranch].target.kind = "bookmarks"
            /\ history.loads[i].raised # {}
    /\ \E i \in DOMAIN history.loads :
        \E snp \in SnapshotOf(history.loads[i]) :
            /\ HeadBranch \in DOMAIN snp
            /\ snp[HeadBranch].target.kind = "branch-tip"


\* The chunks of the file all have the length of the first one, but the
\* last one, which may be shorter.
UniformChunks ==
    /\ \A k \in 1..(Len(reader.chunks) - 1) :
        reader.chunks[k] = reader.chunks[1]
    /\ reader.chunks[Len(reader.chunks)] <= reader.chunks[1]

\* The position the reader was sent to lies in a last chunk that is shorter
\* than the first one.
InShortLastChunk ==
    /\ reader.chunks[Len(reader.chunks)] < reader.chunks[1]
    /\ reader.asked >= ChunkSum(reader.chunks, Len(reader.chunks) - 1)
    /\ reader.left_then + reader.asked
            = ChunkSum(reader.chunks, Len(reader.chunks))

\* The reads made since the seek returned what they returned the first
\* time: the bytes of the payload from the position on.
SameBytesAfterSeek ==
    reader.seeks > 0 /\ reader.step \in {"read", "failed"} =>
        /\ reader.exc = ""
        /\ Len(reader.returned) = reader.bytes_to_read
        /\ reader.out = SubSeq(reader.payload, 1, reader.asked)

\* C21 as stated: after seek(p) to a position observed before, the count of
\* bytes left in the chunk is the count of that moment, and the reads that
\* follow return the same bytes as the first time, in every chunk, a
\* shorter last chunk included.
C21_SeekRestoresCount ==
    UniformChunks =>
        /\ reader.step = "sought" =>
            reader.chunk_bytes_left = reader.left_then
        /\ SameBytesAfterSeek

\* C21, amended: when all chunks but a shorter last one have the length of
\* the first, the reads that follow seek(p) return the same bytes as the
\* first time; the count of bytes left is the count of that moment for a
\* position in a chunk of the full length, and larger by the difference of
\* the lengths for a position in the shorter last chunk.
C21_SeekSameBytes ==
    UniformChunks =>
        /\ reader.step = "sought" =>
            reader.chunk_bytes_left =
                reader.left_then
                + (IF InShortLastChunk
                   THEN reader.chunks[1] - reader.chunks[Len(reader.chunks)]
                   ELSE 0)
        /\ SameBytesAfterSeek

\* After a seek into a shorter last chunk that follows two full chunks, a
\* read returned the bytes of the first time.
C21_Witness ==
    /\ UniformChunks
    /\ Len(reader.chunks) = MaxChunks
    /\ reader.chunks[MaxChunks] < reader.chunks[1]
    /\ reader.seeks > 0
    /\ reader.step = "read"
    /\ reader.bytes_to_read > 0
    /\ reader.asked > ChunkSum(reader.chunks, MaxChunks - 1)
    /\ reader.asked - reader.bytes_to_read
            >= ChunkSum(reader.chunks, MaxChunks - 1)

\* The last line of self.tags that names the tag and a changeset with a
\* revision: the record that get_releases handles last for this name.
LastTagRecord(b, name) ==
    LET is == {i \in 1..Len(b.tags) :
                  /\ b.tags[i].name = name
                  /\ TAG_PATTERN(b.tags[i].node)
                  /\ b.tags[i].node.node \in DOMAIN b.node_2_rev}
    IN  IF is = {} THEN 0 ELSE CHOOSE i \in is : \A j \in is : j <= i

\* C27: the records of .hgtags are deduplicated by tag name, keeping the
\* last: at most one release is emitted per tag name, and the snapshot
\* entry of that name targets the release built from the last record.
C27_OneReleasePerTagName ==
    bundle20.step \in {"releases", "snapshot"} =>
        /\ \A r1, r2 \in bundle20.yielded : r1.name = r2.name => r1 = r2
        /\ \A name \in DOMAIN bundle20.releases :
            LET i == LastTagRecord(bundle20, name)
            IN  /\ i # 0
                /\ bundle20.releases[name] =
                       Bundle20Release(name,
                           bundle20.node_2_rev[bundle20.tags[i].node.node])
        /\ bundle20.step = "snapshot" =>
            \A name \in DOMAIN bundle20.releases :
                [name |-> name, target |-> bundle20.releases[name],
                 target_type |-> "release"] \in bundle20.snapshot

\* The snapshot entry of a tag name targets the release of the last record
\* (the part of C27 that holds).
C27_SnapshotTargetsLast ==
    bundle20.step \in {"releases", "snapshot"} =>
        \A name \in DOMAIN bundle20.releases :
            LET i == LastTagRecord(bundle20, name)
            IN  /\ i # 0
                /\ bundle20.releases[name] =
                       Bundle20Release(name,
                           bundle20.node_2_rev[bundle20.tags[i].node.node])

\* ---------------------------------------------------------------------
\* HgBundle20Loader.prepare: the changesets whose effort is reduced.
\* Times are counted in fractions of a day since an epoch.

\* The fractions a day is divided in.
TicksPerDay == 2
\* The latest time.
MaxTime == 5

Times == 0..MaxTime

\* timedelta.days: the whole days of a difference of times, rounded down.
TimedeltaDays(delta) == delta \div TicksPerDay

\* Variant: a changeset of the time of the visit date counts as older.
OlderThanVisit_Inclusive(ts, visit_date) == ts <= visit_date

\* ts < self.visit_date.timestamp()
OlderThanVisit(ts, visit_date) == ts < visit_date

\* The timestamps of the changesets of a bundle; a repository without
\* changeset has no bundle.
ChangesetTimes == UNION {[1..n -> Times] : n \in 0..MaxChangesets}

\* The loader when prepare() has written the bundle.
Bundle20Bundled(flag, visit_date, now, times) ==
    [step |-> "bundled",
     reduce_effort_flag |-> flag,
     visit_date |-> visit_date,
     now |-> now,
     times |-> times,
     empty_repository |-> FALSE,
     assigned |-> FALSE,
     reduce_effort |-> {}]

\* The end of prepare(): Bundle20Reader raises FileNotFoundError when there
\* is no bundle and self.reduce_effort is not assigned; else it is the set
\* of the changesets older than the visit date when the flag is set and the
\* visit date lies more than one timedelta day back.
PrepareReduceEffort(b) ==
    IF Len(b.times) = 0
    THEN [b EXCEPT !.step = "prepared", !.empty_repository = TRUE]
    ELSE [b EXCEPT
            !.step = "prepared",
            !.assigned = TRUE,
            !.reduce_effort =
                IF b.reduce_effort_flag
                   /\ TimedeltaDays(b.now - b.visit_date) > 1
                THEN {r \in 1..Len(b.times) :
                        OlderThanVisit(b.times[r], b.visit_date)}
                ELSE {}]

InitPrepare ==
    /\ HgUnused
    /\ \E flag \in BOOLEAN, visit_date \in Times, now \in Times,
          times \in ChangesetTimes :
        bundle20 = Bundle20Bundled(flag, visit_date, now, times)
    /\ converted = Unused /\ files = Unused
    /\ cloning = Unused /\ reader = Unused

Bundle20PrepareReduceEffort ==
    /\ bundle20.step = "bundled"
    /\ bundle20' = PrepareReduceEffort(bundle20)
    /\ UNCHANGED <<hgvars, converted, files, cloning, reader>>

NextPrepare == Bundle20PrepareReduceEffort

SpecPrepare == InitPrepare /\ [][NextPrepare]_vars

\* The changesets with a timestamp strictly earlier than the visit date.
EarlierThanVisitDate ==
    {r \in 1..Len(bundle20.times) : bundle20.times[r] < bundle20.visit_date}

\* C23 as stated: the set is populated exactly when effort reduction is
\* enabled and the visit date is more than one day before the current
\* time; it then holds the changesets with a timestamp strictly earlier
\* than the visit date; in every other case it is empty.
C23_PopulatedAfterOneDay ==
    bundle20.step = "prepared" =>
        bundle20.reduce_effort =
            IF bundle20.reduce_effort_flag
               /\ bundle20.now - bundle20.visit_date > TicksPerDay
            THEN EarlierThanVisitDate
            ELSE {}

\* C23, amended: the set is populated exactly when effort reduction is
\* enabled, the repository has a changeset and the visit date lies two
\* whole days or more before the current time; it then holds the
\* changesets with a timestamp strictly earlier than the visit date; in
\* every other case it is empty (not assigned for an empty repository).
C23_PopulatedAfterTwoWholeDays ==
    bundle20.step = "prepared" =>
        /\ bundle20.assigned <=> ~bundle20.empty_repository
        /\ bundle20.reduce_effort =
            IF bundle20.reduce_effort_flag
               /\ bundle20.now - bundle20.visit_date >= 2 * TicksPerDay
            THEN EarlierThanVisitDate
            ELSE {}

\* A visit date two days back, with one changeset before it, one of its
\* time and one after it: the set holds the first one alone.
C23_Witness ==
    /\ bundle20.step = "prepared"
    /\ bundle20.reduce_effort_flag
    /\ bundle20.now - bundle20.visit_date = 2 * TicksPerDay
    /\ Len(bundle20.times) = MaxChangesets
    /\ bundle20.times[1] < bundle20.visit_date
    /\ bundle20.times[2] = bundle20.visit_date
    /\ bundle20.times[3] > bundle20.visit_date
    /\ bundle20.reduce_effort = {1}

\* ---------------------------------------------------------------------
\* HgBundle20Loader: the manifests of a bundle, their directories and the
\* revisions that refer to them. The manifest that changeset m introduced
\* has the node m; a tree is the set of the paths of its files.

ManifestPaths == {"a", "b"}

\* The (added, removed) maps of yield_all_manifest_deltas().
ManifestDeltas ==
    {[added |-> {"a"}, removed |-> {}],
     [added |-> {"b"}, removed |-> {}],
     [added |-> {}, removed |-> {"a"}]}

NoDelta == [added |-> {}, removed |-> {}]

\* The node of a manifest that the bundle does not hold.
MissingNode == MaxChangesets + 1

\* The changelogs without merge.
PlainChangelogs == {cl \in Changelogs : \A r \in 1..MaxChangesets : cl.p2[r] = NULLID}

\* commit['manifest'] of each changeset: the manifest it introduced, or
\* the one of its first parent when it changes no file (NULLID, the
\* NAUGHT_NODE, for a root changeset without file).
ManifestOf(cl) ==
    {mo \in [1..MaxChangesets -> 0..MaxChangesets] :
        \A c \in 1..MaxChangesets :
            \/ mo[c] = c
            \/ cl.p1[c] # NULLID /\ mo[c] = mo[cl.p1[c]]
            \/ cl.p1[c] = NULLID /\ mo[c] = NULLID}

\* The changesets that introduced a manifest: the linknodes of the records
\* of the manifest group, in the order of the bundle.
ManifestNodes(mo) == {m \in 1..MaxChangesets : mo[m] = m}

\* header['basenode'] of the records: NULLID for the first record, then the
\* node of an earlier record or of a manifest the bundle does not hold.
Basenodes(mo) ==
    {bn \in [1..MaxChangesets -> 0..MissingNode] :
        \A m \in 1..MaxChangesets :
            IF m \notin ManifestNodes(mo) THEN bn[m] = NULLID
            ELSE IF \A k \in ManifestNodes(mo) : k >= m THEN bn[m] = NULLID
            ELSE bn[m] \in {k \in ManifestNodes(mo) : k < m} \cup {MissingNode}}

\* The deltas of the records.
DeltasOf(mo) ==
    {d \in [1..MaxChangesets -> ManifestDeltas \cup {NoDelta}] :
        \A m \in 1..MaxChangesets :
            IF m \in ManifestNodes(mo) THEN d[m] \in ManifestDeltas
            ELSE d[m] = NoDelta}

RECURSIVE ManifestFiles(_, _, _)
\* The files of the manifest of node m in the repository: its delta on the
\* files of its base (a manifest that the bundle does not hold has files
\* that the bundle does not tell).
ManifestFiles(bn, d, m) ==
    IF m = NULLID \/ m = MissingNode THEN {}
    ELSE (ManifestFiles(bn, d, bn[m]) \ d[m].removed) \cup d[m].added

\* The deltas that a repository gives: a removed path is a file of the
\* base.
ValidDeltas(mo, bn) ==
    {d \in DeltasOf(mo) :
        \A m \in ManifestNodes(mo) :
            bn[m] # MissingNode =>
                d[m].removed \subseteq ManifestFiles(bn, d, bn[m])}

\* The loader after get_contents(), before get_directories().
Bundle20Catalogued(cl, reduce_effort, head, mo, bn, d) ==
    [step |-> "contents",
     changesets |-> cl,
     reduce_effort |-> reduce_effort,
     tags |-> <<>>,
     heads |-> [b \in {"default"} |-> head],
     node_2_rev |-> [x \in {} |-> 0],
     revisions |-> {},
     releases |-> [x \in {} |-> 0],
     yielded |-> {},
     warnings |-> 0,
     snapshot |-> {},
     exc |-> "",
     manifest |-> mo,
     basenode |-> bn,
     deltas |-> d,
     trees |-> [x \in {} |-> {}],
     tree |-> {},
     mnode_to_tree_id |-> [x \in {} |-> {}],
     directories |-> {},
     loaded |-> 0]

\* SelectiveCache.fetch(key): the value stored for the key, if any.
SelectiveCacheFetch(trees, key) ==
    IF key \in DOMAIN trees THEN [found |-> TRUE, value |-> trees[key]]
    ELSE [found |-> FALSE, value |-> {}]

\* SelectiveCache.store(key, value)
SelectiveCacheStore(trees, key, value) ==
    [k \in DOMAIN trees \cup {key} |-> IF k = key THEN value ELSE trees[k]]

\* Variant: the base is the cached tree if there is one, empty or not, and
\* the empty tree else.
BaseTree_NoWorkingTree(fetched, tree) ==
    IF fetched.found THEN fetched.value ELSE {}

\* tree = self.trees.fetch(basenode) or tree: the working tree when nothing
\* was fetched or when the fetched tree is empty.
BaseTree(fetched, tree) ==
    IF fetched.found /\ fetched.value # {} THEN fetched.value ELSE tree

\* tree.remove_tree_node_for_path(path) for the removed paths, then
\* tree.add_blob(path, ...) for the added ones.
ApplyManifestDelta(tree, delta) == (tree \ delta.removed) \cup delta.added

\* tree.hash_changed(new_dirs): the id of a directory is a function of its
\* entries.
HashChanged(tree) == tree

RECURSIVE LoadDirectories(_, _)
\* The loop of load_directories() over the records, from record m on.
LoadDirectories(b, m) ==
    IF m > MaxChangesets THEN [b EXCEPT !.step = "directories"]
    ELSE IF m \notin ManifestNodes(b.manifest) THEN LoadDirectories(b, m + 1)
    ELSE
        LET tree == ApplyManifestDelta(
                        BaseTree(SelectiveCacheFetch(b.trees, b.basenode[m]),
                                 b.tree),
                        b.deltas[m])
        IN  IF m \in b.reduce_effort
            THEN LoadDirectories(
                    [b EXCEPT !.tree = tree,
                              !.trees = SelectiveCacheStore(@, m, tree),
                              !.loaded = m],
                    m + 1)
            ELSE LoadDirectories(
                    [b EXCEPT
                        !.tree = tree,
                        !.mnode_to_tree_id =
                            [k \in DOMAIN @ \cup {m} |->
                                IF k = m THEN HashChanged(tree) ELSE @[k]],
                        !.trees = SelectiveCacheStore(@, m, tree),
                        !.directories = @ \cup {HashChanged(tree)},
                        !.loaded = m],
                    m + 1)

\* get_directories(): load_directories() iterated to its end.
GetDirectories(b) == LoadDirectories(b, 1)

\* directory_id = self.mnode_to_tree_id[commit['manifest']] of the
\* changesets that get_revisions does not skip raises KeyError for a
\* manifest without directory id; then the revisions are built.
GetRevisionsOfDirectories(b) ==
    IF \E r \in 1..MaxChangesets :
            /\ r \notin b.reduce_effort
            /\ b.manifest[r] # NULLID
            /\ b.manifest[r] \notin DOMAIN b.mnode_to_tree_id
    THEN [b EXCEPT !.step = "failed", !.exc = "KeyError"]
    ELSE GetRevisions(b)

InitDirectories ==
    /\ HgUnused
    /\ \E cl \in PlainChangelogs, reduce_effort \in SUBSET (1..MaxChangesets) :
        \E head \in Bundle20Heads(cl), mo \in ManifestOf(cl) :
            \E bn \in Basenodes(mo) : \E d \in ValidDeltas(mo, bn) :
                bundle20 =
                    Bundle20Catalogued(cl, reduce_effort, head, mo, bn, d)
    /\ converted = Unused /\ files = Unused
    /\ cloning = Unused /\ reader = Unused

\* store_data: the directories.
Bundle20GetDirectories ==
    /\ bundle20.step = "contents"
    /\ bundle20' = GetDirectories(bundle20)
    /\ UNCHANGED <<hgvars, converted, files, cloning, reader>>

\* store_data: the revisions, after the directories.
Bundle20GetRevisionsOfDirectories ==
    /\ bundle20.step = "directories"
    /\ bundle20' = GetRevisionsOfDirectories(bundle20)
    /\ UNCHANGED <<hgvars, converted, files, cloning, reader>>

NextDirectories ==
    \/ Bundle20GetDirectories
    \/ Bundle20GetRevisionsOfDirectories

SpecDirectories == InitDirectories /\ [][NextDirectories]_vars

\* C22: the base tree of a manifest delta is the tree cached for its
\* basenode; the working tree is the base only for the basenode NULL_NODE;
\* a basenode that is not NULL_NODE and has no cached tree fails the load
\* with CorruptBundle, the delta is applied to no other tree.
C22_BaseIsCachedTree ==
    bundle20.step \in {"directories", "revisions", "failed"} =>
        \A m \in ManifestNodes(bundle20.manifest) :
            IF bundle20.basenode[m] = NULLID
            THEN m \in DOMAIN bundle20.trees
            ELSE IF bundle20.basenode[m] \in DOMAIN bundle20.trees
            THEN m \in DOMAIN bundle20.trees =>
                    bundle20.trees[m] =
                        ApplyManifestDelta(
                            bundle20.trees[bundle20.basenode[m]],
                            bundle20.deltas[m])
            ELSE /\ m \notin DOMAIN bundle20.trees
                 /\ bundle20.exc = "CorruptBundle"

\* The changesets that get_revisions does not skip.
NotReduced == (1..MaxChangesets) \ bundle20.reduce_effort

\* C24: with any reduce_effort set, the trees of the manifests of its
\* changesets are stored in the tree cache, get_revisions finds the
\* directory id of the manifest of every changeset outside the set and
\* every head resolves to a revision id: get_revisions does not fail.
C24_ReducedEffortCompletes ==
    /\ bundle20.step \in {"directories", "revisions", "failed"} =>
        \A m \in ManifestNodes(bundle20.manifest) :
            m \in bundle20.reduce_effort => m \in DOMAIN bundle20.trees
    /\ bundle20.step = "directories" =>
        \A r \in NotReduced :
            bundle20.manifest[r] # NULLID =>
                bundle20.manifest[r] \in DOMAIN bundle20.mnode_to_tree_id
    /\ bundle20.step # "failed"
    /\ bundle20.step = "revisions" =>
        \A name \in DOMAIN bundle20.heads :
            bundle20.heads[name] \in bundle20.revisions

\* ---------------------------------------------------------------------
\* bundle_loader.Bundle20Reader: the delta groups of a section. The chunk
\* reader delivers the bytes of the payload; a delta record is its size,
\* five nodes of 20 bytes and patch fragments (start, end, size, data).

\* Number of delta records of a group.
MaxDeltas == 2
\* Number of patch fragments of a delta record.
MaxFragments == 2
\* Number of data bytes of a patch fragment, and its start offsets.
MaxFragmentData == 1

\* read_deltaheader: 5 reads of 20 bytes.
DeltaHeaderBytes == 100
\* read_bytes = 104: the size and the header.
DeltaFixedBytes == 104
\* The three integers before the data of a fragment.
FragmentHeaderBytes == 12

Fragments ==
    [start : 0..MaxFragmentData, sub_size : 0..MaxFragmentData]

DeltaRecords == UNION {[1..k -> Fragments] : k \in 0..MaxFragments}

DeltaGroups == UNION {[1..k -> DeltaRecords] : k \in 1..MaxDeltas}

\* n bytes of the value b.
Filler(n, b) == [i \in 1..n |-> b]

RECURSIVE FragmentBytes(_, _)
\* The bytes of the fragments of a record, from fragment k on.
FragmentBytes(frags, k) ==
    IF k > Len(frags) THEN <<>>
    ELSE Pack(frags[k].start) \o Pack(frags[k].start) \o Pack(frags[k].sub_size)
         \o Filler(frags[k].sub_size, 10) \o FragmentBytes(frags, k + 1)

\* The bytes of a record: its size counts the size itself.
DeltaBytes(frags) ==
    Pack(DeltaFixedBytes + Len(FragmentBytes(frags, 1)))
    \o Filler(DeltaHeaderBytes, 1) \o FragmentBytes(frags, 1)

RECURSIVE GroupBytes(_, _)
\* The bytes of the records of a group from record k on, and the zero size
\* that ends the group.
GroupBytes(group, k) ==
    IF k > Len(group) THEN Pack(0)
    ELSE DeltaBytes(group[k]) \o GroupBytes(group, k + 1)

\* The name of the file of a filelog group: its size counts the size.
FileName == Pack(SIZE_BYTES + 1) \o Filler(1, 97)

\* The section: for the filelog, the name before the group and the zero
\* size that ends the section after it; then the bytes of what follows.
SectionBytes(section, group) ==
    IF section = "filelog"
    THEN FileName \o GroupBytes(group, 1) \o Pack(0) \o Pack(0)
    ELSE GroupBytes(group, 1) \o Pack(0)

\* The position after the zero size that ends the group, and for the
\* filelog after the zero size that ends the section.
GroupEnd(section, group) ==
    (IF section = "filelog" THEN Len(FileName) + SIZE_BYTES ELSE 0)
    + Len(GroupBytes(group, 1))

\* The Bundle20Reader at the start of a section.
Bundle20ReaderInit(section, group) ==
    [step |-> "section",
     section |-> section,
     group |-> group,
     file |-> SectionBytes(section, group),
     pos |-> 0,
     sizes |-> <<>>,
     handled |-> 0,
     exc |-> ""]

\* chunkreader.read(n): the position after it.
Skip(r, n) ==
    [r EXCEPT !.pos = IF @ + n > Len(r.file) THEN Len(r.file) ELSE @ + n]

\* unpack(">I", self.chunkreader) can be evaluated: 4 bytes are left.
CanUnpack(r) == r.pos + SIZE_BYTES <= Len(r.file)

\* The value of unpack(">I", self.chunkreader).
Unpacked(r) == Unpack(FileRead(r.file, r.pos, SIZE_BYTES))

\* One turn of the loop of read_deltadata with its data read by the
\* handler: the three integers, then the data of the fragment.
ReadFragment(r) ==
    IF r.pos + FragmentHeaderBytes > Len(r.file)
    THEN ReaderRaise(r, "struct.error")
    ELSE Skip(Skip(r, FragmentHeaderBytes),
              Unpacked(Skip(r, 2 * SIZE_BYTES)))

\* commit_handler: next(data_block_it) and the data of that block; a
\* record without data gives the list [] and a fragment without data gives
\* None, which raise TypeError.
CommitHandler(r, size) ==
    IF size <= DeltaFixedBytes THEN ReaderRaise(r, "TypeError")
    ELSE IF r.pos + FragmentHeaderBytes > Len(r.file)
    THEN ReaderRaise(r, "struct.error")
    ELSE IF Unpacked(Skip(r, 2 * SIZE_BYTES)) = 0
    THEN ReaderRaise(Skip(r, FragmentHeaderBytes), "TypeError")
    ELSE ReadFragment(r)

RECURSIVE DrainDeltadata(_, _, _)
\* manifest_handler and filedelta_handler: every block of read_deltadata
\* and its data.
DrainDeltadata(r, size, read_bytes) ==
    IF read_bytes >= size \/ r.step = "failed" THEN r
    ELSE DrainDeltadata(
            ReadFragment(r), size,
            read_bytes + FragmentHeaderBytes
                + (IF r.pos + FragmentHeaderBytes > Len(r.file) THEN 0
                   ELSE Unpacked(Skip(r, 2 * SIZE_BYTES))))

\* section_handler(self.read_deltaheader(), ...)
SectionHandler(r, size) ==
    IF r.section = "changesets"
    THEN CommitHandler(Skip(r, DeltaHeaderBytes), size)
    ELSE DrainDeltadata(Skip(r, DeltaHeaderBytes), size, DeltaFixedBytes)

RECURSIVE LoopDeltagroups(_)
\* loop_deltagroups: sizes is the list of the sizes read and of their
\* positions.
LoopDeltagroups(r) ==
    IF r.step = "failed" THEN r
    ELSE IF ~CanUnpack(r) THEN ReaderRaise(r, "struct.error")
    ELSE LET size == Unpacked(r)
             next == [Skip(r, SIZE_BYTES) EXCEPT
                        !.sizes = Append(@, [at |-> r.pos, size |-> size])]
         IN  IF size = 0 THEN [next EXCEPT !.step = "group"]
             ELSE LoopDeltagroups(
                    [SectionHandler(next, size) EXCEPT !.handled = @ + 1])

InitDeltas ==
    /\ HgUnused
    /\ \E section \in {"changesets", "manifest", "filelog"},
          group \in DeltaGroups :
        reader = Bundle20ReaderInit(section, group)
    /\ bundle20 = Unused /\ converted = Unused
    /\ files = Unused /\ cloning = Unused

\* process_changesets()
ProcessChangesets ==
    /\ reader.step = "section" /\ reader.section = "changesets"
    /\ reader' = LoopDeltagroups(reader)
    /\ UNCHANGED <<hgvars, bundle20, converted, files, cloning>>

\* process_manifest()
ProcessManifest ==
    /\ reader.step = "section" /\ reader.section = "manifest"
    /\ reader' = LoopDeltagroups(reader)
    /\ UNCHANGED <<hgvars, bundle20, converted, files, cloning>>

RECURSIVE FilelogFiles(_)
\* The loop of process_filelog: while the size of a name is not zero, the
\* name, the group of the file and the next size.
FilelogFiles(r) ==
    IF r.step = "failed" THEN r
    ELSE IF ~CanUnpack(r) THEN ReaderRaise(r, "struct.error")
    ELSE IF Unpacked(r) = 0 THEN [Skip(r, SIZE_BYTES) EXCEPT !.step = "group"]
    ELSE FilelogFiles(LoopDeltagroups(Skip(r, Unpacked(r))))

\* process_filelog()
ProcessFilelog ==
    /\ reader.step = "section" /\ reader.section = "filelog"
    /\ reader' = FilelogFiles(reader)
    /\ UNCHANGED <<hgvars, bundle20, converted, files, cloning>>

NextDeltas ==
    \/ ProcessChangesets
    \/ ProcessManifest
    \/ ProcessFilelog

SpecDeltas == InitDeltas /\ [][NextDeltas]_vars

\* C28: for each delta record of the declared size S the parser consumed
\* exactly S bytes when it reads the next size, however much of the data
\* the handler drained, and the group ends at the first size of zero.
C28_RecordConsumedExactly ==
    reader.step \in {"group", "failed"} =>
        /\ reader.exc = ""
        /\ \A i \in 1..(Len(reader.sizes) - 1) :
            reader.sizes[i + 1].at = reader.sizes[i].at + reader.sizes[i].size
        /\ reader.pos = GroupEnd(reader.section, reader.group)
        /\ reader.handled = Len(reader.group)

\* ---------------------------------------------------------------------
\* HgBundle20Loader.get_contents: the two passes over the filelog section.
\* A blob is identified with its hash; the node of a file revision is a
\* function of its blob and of its parents.

\* Number of filelog groups, and of file revisions of a group.
MaxGroups == 2
MaxFileRevs == 2
\* Number of changesets the file revisions are linked to.
MaxLinks == 2

FileBlobs == {"x", "y"}

FileNodes == [blob : FileBlobs, parents : 0..1]

FileRevisions == [node : FileNodes, linknode : 1..MaxLinks]

\* The groups of the filelog section: the nodes of a group differ.
FilelogGroups ==
    {g \in UNION {[1..k -> FileRevisions] : k \in 1..MaxFileRevs} :
        \A i, j \in 1..Len(g) : i # j => g[i].node # g[j].node}

Filelogs == UNION {[1..k -> FilelogGroups] : k \in 1..MaxGroups}

RECURSIVE GroupOffset(_, _)
\* The file offset of group g: the groups before it lie before it.
GroupOffset(filelog, g) ==
    IF g = 1 THEN 1
    ELSE GroupOffset(filelog, g - 1) + 1 + Len(filelog[g - 1])

\* The group of an offset.
GroupAt(filelog, offset) ==
    CHOOSE g \in 1..Len(filelog) : GroupOffset(filelog, g) = offset

\* The loader before get_contents(): the archive holds some of the blobs.
Bundle20Revisioned(filelog, reduce_effort, archived) ==
    [step |-> "prepared",
     filelog |-> filelog,
     reduce_effort |-> reduce_effort,
     archived |-> archived,
     file_node_to_hash |-> [x \in {} |-> ""],
     hash_to_info |-> [x \in {} |-> 0],
     contents |-> {},
     missing_contents |-> {},
     num_contents |-> 0,
     replayed |-> <<>>,
     emitted |-> <<>>]

\* One blob of yield_all_blobs() in the first pass: its hash is kept for
\* its node; unless its changeset is in reduce_effort, its group offset
\* and node are kept for its hash, the last blob of a hash winning.
CatalogBlob(b, g, i) ==
    LET rev == b.filelog[g][i]
        hashed == [b EXCEPT
                    !.num_contents = @ + 1,
                    !.file_node_to_hash =
                        [n \in DOMAIN @ \cup {rev.node} |->
                            IF n = rev.node THEN rev.node.blob ELSE @[n]]]
    IN  IF rev.linknode \in b.reduce_effort THEN hashed
        ELSE [hashed EXCEPT
                !.hash_to_info =
                    [h \in DOMAIN @ \cup {rev.node.blob} |->
                        IF h = rev.node.blob
                        THEN [file_offset |-> GroupOffset(b.filelog, g),
                              node |-> rev.node]
                        ELSE @[h]],
                !.contents = @ \cup {rev.node.blob}]

RECURSIVE CatalogBlobs(_, _, _)
\* The first pass, from blob i of group g on.
CatalogBlobs(b, g, i) ==
    IF g > Len(b.filelog) THEN b
    ELSE IF i > Len(b.filelog[g]) THEN CatalogBlobs(b, g + 1, 1)
    ELSE CatalogBlobs(CatalogBlob(b, g, i), g, i + 1)

\* self.storage.content_missing(list(contents.values()), key_hash=ALGO)
ContentMissing(b) == b.contents \ b.archived

\* focs: the nodes and hashes of the missing contents, by file offset.
Focs(b) ==
    [offset \in {b.hash_to_info[h].file_offset : h \in b.missing_contents} |->
        {<<b.hash_to_info[h].node, h>> :
            h \in {k \in b.missing_contents :
                      b.hash_to_info[k].file_offset = offset}}]

RECURSIVE DescendingOffsets(_)
\* Variant: the offsets from the last to the first.
DescendingOffsets(offsets) ==
    IF offsets = {} THEN <<>>
    ELSE LET o == CHOOSE x \in offsets : \A y \in offsets : y <= x
         IN  <<o>> \o DescendingOffsets(offsets \ {o})

RECURSIVE SortedOffsets(_)
\* sorted(focs.items()): the offsets from the first to the last.
SortedOffsets(offsets) ==
    IF offsets = {} THEN <<>>
    ELSE LET o == CHOOSE x \in offsets : \A y \in offsets : x <= y
         IN  <<o>> \o SortedOffsets(offsets \ {o})

RECURSIVE ReplayGroup(_, _, _, _)
\* The objects of yield_group_objects(group_offset=offset) from object i
\* on: a node of node_hashes whose content is still in contents is
\* emitted, and its content popped.
ReplayGroup(b, offset, node_hashes, i) ==
    LET g == GroupAt(b.filelog, offset)
    IN  IF i > Len(b.filelog[g]) THEN b
        ELSE LET node == b.filelog[g][i].node
                 hit == {nh \in node_hashes : nh[1] = node}
             IN  IF hit = {} \/ (CHOOSE nh \in hit : TRUE)[2] \notin b.contents
                 THEN ReplayGroup(b, offset, node_hashes, i + 1)
                 ELSE ReplayGroup(
                        [b EXCEPT
                            !.contents =
                                @ \ {(CHOOSE nh \in hit : TRUE)[2]},
                            !.emitted =
                                Append(@,
                                    [id |-> (CHOOSE nh \in hit : TRUE)[2],
                                     file_offset |-> offset])],
                        offset, node_hashes, i + 1)

RECURSIVE ReplayGroups(_, _, _, _)
\* The second pass over the offsets, from offset k of the list on.
ReplayGroups(b, focs, offsets, k) ==
    IF k > Len(offsets) THEN [b EXCEPT !.step = "contents"]
    ELSE ReplayGroups(
            ReplayGroup([b EXCEPT !.replayed = Append(@, offsets[k])],
                        offsets[k], focs[offsets[k]], 1),
            focs, offsets, k + 1)

\* The second pass, for the contents that the archive misses.
Materialize(b, missing) ==
    LET m == [b EXCEPT !.missing_contents = missing]
    IN  ReplayGroups(m, Focs(m), SortedOffsets(DOMAIN Focs(m)), 1)

\* get_contents(), iterated to its end.
GetContents(b) ==
    Materialize(CatalogBlobs(b, 1, 1), ContentMissing(CatalogBlobs(b, 1, 1)))

InitContents ==
    /\ HgUnused
    /\ \E filelog \in Filelogs, reduce_effort \in SUBSET (1..MaxLinks),
          archived \in SUBSET FileBlobs :
        bundle20 = Bundle20Revisioned(filelog, reduce_effort, archived)
    /\ converted = Unused /\ files = Unused
    /\ cloning = Unused /\ reader = Unused

\* store_data: the contents.
Bundle20GetContents ==
    /\ bundle20.step = "prepared"
    /\ bundle20' = GetContents(bundle20)
    /\ UNCHANGED <<hgvars, converted, files, cloning, reader>>

NextContents == Bundle20GetContents

SpecContents == InitContents /\ [][NextContents]_vars

\* The revisions of a group that get_contents does not skip.
KeptRevisions(g) ==
    {i \in 1..Len(bundle20.filelog[g]) :
        bundle20.filelog[g][i].linknode \notin bundle20.reduce_effort}

\* C25: get_contents emits every content id that the archive reported
\* missing exactly once, none that was not reported missing, in ascending
\* order of the file offset of their group, and it replays only groups
\* that hold a missing content.
C25_MissingContentsOnceInOffsetOrder ==
    bundle20.step = "contents" =>
        LET emitted == bundle20.emitted
            missing == {bundle20.filelog[g][i].node.blob :
                            <<g, i>> \in {gi \in (1..MaxGroups) \X (1..MaxFileRevs) :
                                /\ gi[1] <= Len(bundle20.filelog)
                                /\ gi[2] \in KeptRevisions(gi[1])}}
                       \ bundle20.archived
        IN  /\ {emitted[k].id : k \in 1..Len(emitted)} = missing
            /\ \A j, k \in 1..Len(emitted) :
                j # k => emitted[j].id # emitted[k].id
            /\ \A j, k \in 1..Len(emitted) :
                j < k => emitted[j].file_offset <= emitted[k].file_offset
            /\ \A k \in 1..Len(emitted) :
                \E i \in KeptRevisions(GroupAt(bundle20.filelog,
                                               emitted[k].file_offset)) :
                    bundle20.filelog[GroupAt(bundle20.filelog,
                        emitted[k].file_offset)][i].node.blob = emitted[k].id
            /\ \A k \in 1..Len(bundle20.replayed) :
                \E i \in KeptRevisions(GroupAt(bundle20.filelog,
                                               bundle20.replayed[k])) :
                    bundle20.filelog[GroupAt(bundle20.filelog,
                        bundle20.replayed[k])][i].node.blob \in missing

\* Two groups were replayed and each gave a content, a blob of the first
\* group is also in the second, and the archive held no blob.
C25_Witness ==
    /\ bundle20.step = "contents"
    /\ Len(bundle20.replayed) = 2
    /\ Len(bundle20.emitted) = 2
    /\ bundle20.emitted[1].file_offset < bundle20.emitted[2].file_offset
    /\ bundle20.archived = {}
    /\ \E i \in 1..Len(bundle20.filelog[1]) :
        bundle20.filelog[1][i].node.blob = bundle20.emitted[2].id

\* ---------------------------------------------------------------------
\* HgDirectory as the nested structure it is: a directory maps the names
\* of its entries to contents and directories. It is compared with the
\* flat map from the paths of the files to their contents.

\* The number of operations of a sequence.
MaxOps == 6

\* The paths of the operations: b"a", b"a/b", b"a/b/c", b"a/d", b"e".
TreePaths ==
    {<<"a">>, <<"a", "b">>, <<"a", "b", "c">>, <<"a", "d">>, <<"e">>}

TreeContents == {1, 2}

NoEntries == [x \in {} |-> 0]

ContentNode(c) == [kind |-> "content", id |-> c, entries |-> NoEntries]

DirectoryNode(entries) == [kind |-> "directory", id |-> 0, entries |-> entries]

\* What a lookup that raises KeyError gives.
NoNode == [kind |-> "none", id |-> 0, entries |-> NoEntries]

RECURSIVE DirectoryGetitem(_, _)
\* Directory.__getitem__(path) on the entries d: the entry of the first
\* name, and for a longer path the lookup of the rest in it; NoNode for a
\* KeyError.
DirectoryGetitem(d, path) ==
    IF path[1] \notin DOMAIN d THEN NoNode
    ELSE IF Len(path) = 1 THEN d[path[1]]
    ELSE IF d[path[1]].kind # "directory" THEN NoNode
    ELSE DirectoryGetitem(d[path[1]].entries, Tail(path))

\* HgDirectory.get(path)
HgDirectoryGet(d, path) == DirectoryGetitem(d, path)

\* The entries d with the entry name set.
WithEntry(d, name, node) ==
    [n \in DOMAIN d \cup {name} |-> IF n = name THEN node ELSE d[n]]

RECURSIVE HgDirectorySet(_, _, _)
\* HgDirectory.__setitem__(path, value): for a path with a b"/", the
\* directory of the head, a new one where there is none or a content, and
\* the tail set in it; else the entry itself.
HgDirectorySet(d, path, value) ==
    IF Len(path) > 1
    THEN LET directory ==
                IF HgDirectoryGet(d, <<path[1]>>).kind = "directory"
                THEN d[path[1]].entries ELSE NoEntries
         IN  WithEntry(d, path[1],
                 DirectoryNode(HgDirectorySet(directory, Tail(path), value)))
    ELSE WithEntry(d, path[1], value)

RECURSIVE DirectoryDelitem(_, _)
\* Directory.__delitem__(path) on a path that is there: the entry is
\* removed from the directory that holds it.
DirectoryDelitem(d, path) ==
    IF Len(path) = 1 THEN [n \in DOMAIN d \ {path[1]} |-> d[n]]
    ELSE WithEntry(d, path[1],
            DirectoryNode(DirectoryDelitem(d[path[1]].entries, Tail(path))))

\* The path without its last name.
Parent(path) == SubSeq(path, 1, Len(path) - 1)

RECURSIVE KeepEmptyParents(_, _)
\* Variant: the parent directories are left as they are.
KeepEmptyParents(d, path) == d

RECURSIVE RemoveEmptyParents(_, _)
\* The loop of HgDirectory.__delitem__: while the path has a b"/", the
\* parent is removed if it is empty, and the loop ends if it is not.
RemoveEmptyParents(d, path) ==
    IF Len(path) = 1 THEN d
    ELSE IF DOMAIN DirectoryGetitem(d, Parent(path)).entries = {}
    THEN RemoveEmptyParents(DirectoryDelitem(d, Parent(path)), Parent(path))
    ELSE d

\* HgDirectory.__delitem__(path)
HgDirectoryDel(d, path) ==
    RemoveEmptyParents(DirectoryDelitem(d, path), path)

\* The flat map with the file p set as a dict sets it, a file at a proper
\* prefix of p being replaced by the directory.
DictSet(m, p, c) ==
    LET keep == {q \in DOMAIN m : ~IsProperPrefix(q, p)}
    IN  [q \in keep \cup {p} |-> IF q = p THEN c ELSE m[q]]

\* The flat map with the key p deleted as a dict deletes it.
DictDel(m, p) == [q \in DOMAIN m \ {p} |-> m[q]]

\* The flat map with the file p set, without the files at a proper prefix
\* of p and the files below p.
FlatSet(m, p, c) ==
    LET keep == {q \in DOMAIN m :
                    ~IsProperPrefix(q, p) /\ ~IsProperPrefix(p, q)}
    IN  [q \in keep \cup {p} |-> IF q = p THEN c ELSE m[q]]

\* The flat map without the file p and the files below p.
FlatDel(m, p) ==
    [q \in {x \in DOMAIN m : x # p /\ ~IsProperPrefix(p, x)} |-> m[q]]

\* A new HgDirectory, the dict and the flat map of the same operations.
HgDirectoryInit ==
    [step |-> "tree",
     root |-> NoEntries,
     dict |-> NoEntries,
     flat |-> NoEntries,
     ops |-> 0,
     op |-> "",
     path |-> <<>>,
     depth |-> 0]

\* The number of directories on the path that a deletion removed.
Pruned(d, path) ==
    Cardinality({k \in 1..(Len(path) - 1) :
        /\ DirectoryGetitem(d, SubSeq(path, 1, k)).kind = "directory"
        /\ HgDirectoryGet(HgDirectoryDel(d, path), SubSeq(path, 1, k)).kind
                = "none"})

InitHgDirectory ==
    /\ repo = Unused /\ nrevs = Unused /\ version = Unused
    /\ storage = Unused /\ partial = Unused /\ history = Unused
    /\ loader = HgDirectoryInit
    /\ bundle20 = Unused /\ converted = Unused /\ files = Unused
    /\ cloning = Unused /\ reader = Unused

\* directory[path] = content
HgDirectorySetitem ==
    /\ loader.ops < MaxOps
    /\ \E path \in TreePaths, c \in TreeContents :
        loader' = [loader EXCEPT
                    !.root = HgDirectorySet(@, path, ContentNode(c)),
                    !.dict = DictSet(@, path, c),
                    !.flat = FlatSet(@, path, c),
                    !.ops = @ + 1,
                    !.op = "set",
                    !.path = path,
                    !.depth = 0]
    /\ UNCHANGED <<repo, nrevs, version, storage, partial, history, units>>

\* del directory[path], for a path that is there (else KeyError is raised
\* and the directory is as before).
HgDirectoryDelitem ==
    /\ loader.ops < MaxOps
    /\ \E path \in TreePaths :
        /\ DirectoryGetitem(loader.root, path).kind # "none"
        /\ loader' = [loader EXCEPT
                        !.root = HgDirectoryDel(@, path),
                        !.dict = DictDel(@, path),
                        !.flat = FlatDel(@, path),
                        !.ops = @ + 1,
                        !.op = "del",
                        !.path = path,
                        !.depth = Pruned(loader.root, path)]
    /\ UNCHANGED <<repo, nrevs, version, storage, partial, history, units>>

NextHgDirectory ==
    \/ HgDirectorySetitem
    \/ HgDirectoryDelitem

SpecHgDirectory == InitHgDirectory /\ [][NextHgDirectory]_vars

\* Every path of the tree and its proper prefixes.
TreePrefixes ==
    UNION {{SubSeq(p, 1, k) : k \in 1..Len(p)} : p \in TreePaths}

\* The tree d is the nested structure of the flat map m: its contents are
\* the files of m, and its directories the proper prefixes of their paths.
IsTreeOf(d, m) ==
    \A p \in TreePrefixes :
        /\ DirectoryGetitem(d, p).kind = "content" <=>
                p \in DOMAIN m
        /\ p \in DOMAIN m => DirectoryGetitem(d, p).id = m[p]
        /\ DirectoryGetitem(d, p).kind = "directory" <=>
                \E q \in DOMAIN m : IsProperPrefix(p, q)

\* No directory of the tree is empty.
NoEmptyDirectory(d) ==
    \A p \in TreePrefixes :
        DirectoryGetitem(d, p).kind = "directory" =>
            DOMAIN DirectoryGetitem(d, p).entries # {}

\* C26 as stated: after any sequence of assignments and deletions the tree
\* is the nested structure of the flat map of the same operations (an
\* assignment below a file replacing the file), and no empty sub-directory
\* survives a deletion.
C26_TreeOfDict ==
    loader.step = "tree" =>
        /\ IsTreeOf(loader.root, loader.dict)
        /\ NoEmptyDirectory(loader.root)

\* C26, amended: the tree is the nested structure of the flat map in which
\* an assignment to a path also removes the files at the proper prefixes of
\* the path and the files below it, and a deletion the files below the
\* path; no empty sub-directory survives a deletion.
C26_TreeOfFlatMap ==
    loader.step = "tree" =>
        /\ IsTreeOf(loader.root, loader.flat)
        /\ NoEmptyDirectory(loader.root)

\* The deletion of b"a/b/c" removed the directories b"a/b" and b"a" with
\* it, and the file b"e" is still there.
C26_Witness ==
    /\ loader.step = "tree"
    /\ loader.op = "del"
    /\ loader.path = <<"a", "b", "c">>
    /\ loader.depth = 2
    /\ DOMAIN loader.root = {"e"}

====
